---- MODULE Spec2Model ----
(***************************************************************************)
(* The task, message and event store of the Kanban board                   *)
(* (convex/tasks.ts, convex/messages.ts, the status migration) as a state  *)
(* machine over the four database tables.  Every mutation is one atomic    *)
(* step (a serializable transaction of the backing database).              *)
(*                                                                         *)
(* Strings the code trims or slices are sequences of one-character         *)
(* strings; an optional argument or field is a set with at most one        *)
(* element ({} is "absent").  Times are milliseconds relative to the       *)
(* start of the run.                                                       *)
(***************************************************************************)
EXTENDS Integers, Sequences, FiniteSets, TLC

VARIABLES
    tasks,        \* table "tasks": document id -> task record
    messages,     \* table "messages", in insertion order
    task_events,  \* table "task_events", in insertion order
    app_state,    \* table "app_state", in insertion order
    nextTaskId,   \* the id the next inserted task document receives
    clock,        \* the latest value Date.now() returned
    pre,          \* the four tables as they were before the last mutation
    trace,        \* the mutations called so far: arguments, result, table sizes before
    stt,          \* the speech-to-text proxy: the request in progress and its response
    todoState,    \* the State of the client reducer (domain/todo)
    dispatched,   \* the actions the reducer was given so far, each with the State before it
    localStorage  \* the item stored under 'todo-state:v1' in the browser ({} when none)

vars ==
    <<tasks, messages, task_events, app_state, nextTaskId, clock, pre, trace, stt,
      todoState, dispatched, localStorage>>

\* the local, offline variant of the board: the reducer and its storage
local == <<todoState, dispatched, localStorage>>

db == <<tasks, messages, task_events, app_state, nextTaskId>>

(***************************************************************************)
(* Bounds of the exploration.                                              *)
(***************************************************************************)
MaxOps == 2

\* mutations per run of the two narrow specifications at the end of the module
MaxCycleOps == 4

MaxSeedOps == 3

\* calls in a run of the description scenario
MaxDescribeOps == 3

\* reorder mutations in a run of the two-client scenario
MaxConcurrentOps == 2

\* applications of the status normalizer in a run
MaxNormalizeOps == 2

MaxSttRequests == 1

MaxDispatches == 2

MaxUndoOps == 4

MaxStorageOps == 2

MaxLockstepOps == 3

(***************************************************************************)
(* Program constants.                                                      *)
(***************************************************************************)
DEMO_SEED_KEY == "demo_seeded"

PreviewLength == 80

TaskStatus == {"backlog", "in_progress", "done"}

legacyTaskStatus == {"backlog", "in_progress", "done", "active", "completed", "in-progress"}

demoSeedLanguage == {"ru", "en", "es"}

(***************************************************************************)
(* Strings.                                                                *)
(***************************************************************************)
IsSpace(c) == c \in {" ", "\t", "\n"}

RECURSIVE trimStart(_)
trimStart(s) ==
    IF s = <<>> THEN <<>>
    ELSE IF IsSpace(Head(s)) THEN trimStart(Tail(s)) ELSE s

RECURSIVE trimEnd(_)
trimEnd(s) ==
    IF s = <<>> THEN <<>>
    ELSE IF IsSpace(s[Len(s)]) THEN trimEnd(SubSeq(s, 1, Len(s) - 1)) ELSE s

\* a wrong trim: trailing whitespace is kept
trimLeadingOnly(s) == trimStart(s)

trim(s) == trimEnd(trimStart(s))

slice(s, from, to) == SubSeq(s, from + 1, IF to < Len(s) THEN to ELSE Len(s))

\* the characters of "demo-user"
DemoUser == <<"d", "e", "m", "o", "-", "u", "s", "e", "r">>

\* a wrong normalizeActor: only the absent or blank actor becomes anonymous, any
\* other name is kept ("other" stands for the caller's string)
normalizeActorKeepsName(actor) ==
    LET trimmed == IF actor = {} THEN <<>> ELSE trim(CHOOSE a \in actor : TRUE)
    IN  IF trimmed = DemoUser THEN "demo-user"
        ELSE IF trimmed = <<>> THEN "anonymous" ELSE "other"

\* actor is optional; the result is one of the two literals
normalizeActor(actor) ==
    LET trimmed == IF actor = {} THEN <<>> ELSE trim(CHOOSE a \in actor : TRUE)
    IN  IF trimmed = DemoUser THEN "demo-user" ELSE "anonymous"

buildPreview(text) == slice(text, 0, PreviewLength)

(***************************************************************************)
(* Statuses.                                                               *)
(***************************************************************************)
\* a wrong nextStatus: done is terminal
nextStatusStops(status) ==
    IF status = "backlog" THEN "in_progress" ELSE "done"

nextStatus(status) ==
    IF status = "backlog" THEN "in_progress"
    ELSE IF status = "in_progress" THEN "done"
    ELSE "backlog"

\* a wrong normalizeLegacyStatus: the hyphenated spelling is not recognized
normalizeLegacyStatusNoHyphen(status) ==
    IF status = {"active"} THEN "backlog"
    ELSE IF status = {"completed"} THEN "done"
    ELSE IF status = {"done"} THEN "done"
    ELSE IF status = {"backlog"} THEN "backlog"
    ELSE IF status = {"in_progress"} THEN "in_progress"
    ELSE "backlog"

\* status is optional: {} or a singleton
normalizeLegacyStatus(status) ==
    IF status = {"active"} THEN "backlog"
    ELSE IF status = {"completed"} THEN "done"
    ELSE IF status = {"done"} THEN "done"
    ELSE IF status = {"in-progress"} THEN "in_progress"
    ELSE IF status = {"backlog"} THEN "backlog"
    ELSE IF status = {"in_progress"} THEN "in_progress"
    ELSE "backlog"

(***************************************************************************)
(* Database helpers.                                                       *)
(***************************************************************************)
MinOf(S) == CHOOSE x \in S : \A y \in S : x <= y

\* the rows of index by_status_order with the given status
byStatus(tbl, status) == {id \in DOMAIN tbl : tbl[id].status = status}

\* a wrong getNextOrder: appends after the last task instead of prepending
getNextOrderAppend(tbl, status) ==
    LET col == byStatus(tbl, status)
    IN  IF col # {} THEN -MinOf({-tbl[id].order : id \in col}) + 1 ELSE 0

getNextOrder(tbl, status) ==
    LET col == byStatus(tbl, status)
    IN  IF col # {} THEN MinOf({tbl[id].order : id \in col}) - 1 ELSE 0

NoPayload == [from |-> {}, to |-> {}, textPreview |-> {}, fromIndex |-> {}, toIndex |-> {}]

TaskEvent(taskId, type, actor, payload, createdAt) ==
    [taskId |-> taskId, type |-> type, actor |-> actor, payload |-> payload,
     createdAt |-> createdAt]

Tables == [tasks |-> tasks, messages |-> messages, task_events |-> task_events,
           app_state |-> app_state]

\* Date.now(): the clock never runs backwards; two reads may fall in one millisecond
DateNow == {clock, clock + 1}

Null == [kind |-> "null"]

\* tasks.seedStatus: the value of the first demo_seeded document, else false
seedStatus(state) ==
    LET docs == {i \in 1..Len(state) : state[i].key = DEMO_SEED_KEY}
    IN  IF docs = {} THEN FALSE ELSE state[MinOf(docs)].value

Sizes ==
    [tasks |-> Cardinality(DOMAIN tasks), messages |-> Len(messages),
     task_events |-> Len(task_events), seeded |-> seedStatus(app_state)]

\* the last mutation called, what it returned, and how many were called
ops == Len(trace)

call == IF trace = <<>> THEN [op |-> "init"] ELSE trace[Len(trace)].call

ret == IF trace = <<>> THEN Null ELSE trace[Len(trace)].ret

\* bookkeeping every mutation shares: c is the call, r its result, now the last
\* value it read from the clock
Called(c, r, now) ==
    /\ pre' = Tables
    /\ trace' = Append(trace, [call |-> c, ret |-> r, before |-> Sizes])
    /\ clock' = now
    /\ UNCHANGED <<stt, local>>

(***************************************************************************)
(* tasks.create                                                            *)
(***************************************************************************)
create(title, description, status, order, actor, now) ==
    LET trimmed == trim(title)
        c == [op |-> "create", title |-> title, description |-> description,
              status |-> status, order |-> order, actor |-> actor]
    IN  IF trimmed = <<>>
        THEN /\ Called(c, Null, clock)
             /\ UNCHANGED db
        ELSE LET st == normalizeLegacyStatus(status)
                 ord == IF order = {} THEN getNextOrder(tasks, st)
                        ELSE CHOOSE o \in order : TRUE
                 taskId == nextTaskId
             IN  /\ Called(c, [kind |-> "id", id |-> taskId], now)
                 /\ tasks' = (taskId :> [title |-> trimmed, status |-> st,
                                         description |-> IF description = {} THEN <<>>
                                                         ELSE CHOOSE d \in description : TRUE,
                                         order |-> ord, createdAt |-> now,
                                         updatedAt |-> now]) @@ tasks
                 /\ nextTaskId' = nextTaskId + 1
                 /\ task_events' = Append(task_events,
                        TaskEvent(taskId, "task_created", normalizeActor(actor),
                                  NoPayload, now))
                 /\ UNCHANGED <<messages, app_state>>

(***************************************************************************)
(* tasks.seedDemoData                                                      *)
(***************************************************************************)
minutes(value) == value * 60 * 1000

\* The literal texts of the templates are kept as (language, field, number)
\* keys: the three tables differ in nothing else.
SeedText(language, field, n) == <<language, field, n>>

Alex == <<"A", "l", "e", "x">>

Maria == <<"M", "a", "r", "i", "a">>

Template(language, n, status, order, hasDescription, createdOffset, statusFrom, statusOffset, descriptionOffset, msgs) ==
    [title |-> SeedText(language, "title", n), status |-> status, order |-> order,
     description |-> IF hasDescription THEN {SeedText(language, "description", n)} ELSE {},
     createdOffset |-> createdOffset, statusFrom |-> statusFrom,
     statusOffset |-> statusOffset, descriptionOffset |-> descriptionOffset,
     messages |-> msgs]

SeedMessage(language, n, offset, author) ==
    [text |-> SeedText(language, "message", n), offset |-> offset, author |-> author]

demoSeedTemplates(language) ==
    << Template(language, "1", "backlog", 0, TRUE, 0, {}, {}, {6}, <<>>),
       Template(language, "2", "backlog", 1, FALSE, 4, {}, {}, {}, <<>>),
       Template(language, "3", "in_progress", 0, TRUE, 12, {"backlog"}, {18}, {22},
                << SeedMessage(language, "3a", 28, Alex),
                   SeedMessage(language, "3b", 34, Maria) >>),
       Template(language, "4", "in_progress", 1, FALSE, 20, {"backlog"}, {26}, {}, <<>>),
       Template(language, "5", "in_progress", 2, TRUE, 28, {"backlog"}, {33}, {38}, <<>>),
       Template(language, "6", "done", 0, FALSE, 36, {"backlog"}, {44}, {},
                << SeedMessage(language, "6a", 52, Alex),
                   SeedMessage(language, "6b", 58, Maria) >>),
       Template(language, "7", "done", 1, TRUE, 42, {"backlog"}, {50}, {56}, <<>>) >>

The(S) == CHOOSE x \in S : TRUE

MaxOf(a, b) == IF a >= b THEN a ELSE b

\* the messages loop of one template (lines 492-510): st is
\* [messages, task_events, updatedAt]
RECURSIVE seedMessages(_, _, _, _, _, _)
seedMessages(msgs, i, taskId, baseTime, actor, st) ==
    IF i > Len(msgs) THEN st
    ELSE LET message == msgs[i]
             messageAt == baseTime + minutes(message.offset)
         IN  seedMessages(msgs, i + 1, taskId, baseTime, actor,
                 [messages |-> Append(st.messages,
                      [taskId |-> taskId, text |-> message.text,
                       author |-> message.author, createdAt |-> messageAt]),
                  task_events |-> Append(st.task_events,
                      TaskEvent(taskId, "message_sent", actor,
                                [NoPayload EXCEPT !.textPreview = {buildPreview(message.text)}],
                                messageAt)),
                  updatedAt |-> MaxOf(st.updatedAt, messageAt)])

\* one iteration of the insert loop (lines 447-515): st is
\* [tasks, messages, task_events, nextTaskId]
seedTask(task, baseTime, actor, st) ==
    LET createdAt == baseTime + minutes(task.createdOffset)
        taskId == st.nextTaskId
        ev1 == Append(st.task_events,
                      TaskEvent(taskId, "task_created", actor, NoPayload, createdAt))
        hasStatus == task.statusFrom # {} /\ task.statusOffset # {}
        statusAt == baseTime + minutes(The(task.statusOffset))
        ev2 == IF hasStatus
               THEN Append(ev1, TaskEvent(taskId, "task_status_changed", actor,
                        [NoPayload EXCEPT !.from = task.statusFrom, !.to = {task.status}],
                        statusAt))
               ELSE ev1
        up2 == IF hasStatus THEN MaxOf(createdAt, statusAt) ELSE createdAt
        hasDescription == task.description # {} /\ The(task.description) # <<>>
                          /\ task.descriptionOffset # {}
        descriptionAt == baseTime + minutes(The(task.descriptionOffset))
        ev3 == IF hasDescription
               THEN Append(ev2, TaskEvent(taskId, "task_description_updated", actor,
                        [NoPayload EXCEPT
                            !.textPreview = {buildPreview(The(task.description))}],
                        descriptionAt))
               ELSE ev2
        up3 == IF hasDescription THEN MaxOf(up2, descriptionAt) ELSE up2
        m == seedMessages(task.messages, 1, taskId, baseTime, actor,
                 [messages |-> st.messages, task_events |-> ev3, updatedAt |-> up3])
    IN  [tasks |-> (taskId :> [title |-> task.title, status |-> task.status,
                               description |-> IF task.description = {} THEN <<>>
                                               ELSE The(task.description),
                               order |-> task.order, createdAt |-> createdAt,
                               updatedAt |-> m.updatedAt]) @@ st.tasks,
         messages |-> m.messages,
         task_events |-> m.task_events,
         nextTaskId |-> taskId + 1]

RECURSIVE seedTasks(_, _, _, _, _)
seedTasks(templates, i, baseTime, actor, st) ==
    IF i > Len(templates) THEN st
    ELSE seedTasks(templates, i + 1, baseTime, actor,
                   seedTask(templates[i], baseTime, actor, st))

\* a wrong lookup: another key
seededDocsOtherKey == {i \in 1..Len(app_state) : app_state[i].key = "seeded"}

\* .withIndex("by_key", q => q.eq("key", DEMO_SEED_KEY)).first(): positions of the
\* matching documents; the first one is the smallest
seededDocs == {i \in 1..Len(app_state) : app_state[i].key = DEMO_SEED_KEY}

\* a wrong reset phase: the events are not deleted
resetTablesKeepsEvents(reset) ==
    IF reset
    THEN [tasks |-> <<>>, messages |-> <<>>, task_events |-> task_events,
          nextTaskId |-> nextTaskId]
    ELSE [tasks |-> tasks, messages |-> messages, task_events |-> task_events,
          nextTaskId |-> nextTaskId]

\* a wrong reset phase: the tables are emptied whatever the flag says
resetTablesAlways(reset) ==
    [tasks |-> <<>>, messages |-> <<>>, task_events |-> <<>>, nextTaskId |-> nextTaskId]

\* the reset phase (lines 129-142): the three tables the insert loop starts from
resetTables(reset) ==
    IF reset
    THEN [tasks |-> <<>>, messages |-> <<>>, task_events |-> <<>>,
          nextTaskId |-> nextTaskId]
    ELSE [tasks |-> tasks, messages |-> messages, task_events |-> task_events,
          nextTaskId |-> nextTaskId]

seedDemoData(language, now) ==
    LET hasDoc == seededDocs # {}
        doc == MinOf(seededDocs)
        reset == hasDoc /\ app_state[doc].value
        baseTime == now - minutes(85)
        actor == "demo-user"
        start == resetTables(reset)
        end == seedTasks(demoSeedTemplates(language), 1, baseTime, actor, start)
    IN  /\ Called([op |-> "seedDemoData", language |-> language],
                  [kind |-> "string", value |-> "created"], now)
        /\ tasks' = end.tasks
        /\ messages' = end.messages
        /\ task_events' = end.task_events
        /\ nextTaskId' = end.nextTaskId
        /\ app_state' = IF hasDoc
                        THEN [app_state EXCEPT ![doc].value = TRUE,
                                               ![doc].updatedAt = now]
                        ELSE Append(app_state,
                                 [key |-> DEMO_SEED_KEY, value |-> TRUE,
                                  createdAt |-> now, updatedAt |-> now])

(***************************************************************************)
(* The database's answer to a write on a document that does not exist:     *)
(* db.patch and db.delete reject it, the mutation throws and its           *)
(* transaction is rolled back.                                             *)
(***************************************************************************)
Threw == [kind |-> "threw"]

Status(s) == [kind |-> "status", status |-> s]

Throws(c) ==
    /\ Called(c, Threw, clock)
    /\ UNCHANGED db

NotFound(c) ==
    /\ Called(c, Null, clock)
    /\ UNCHANGED db

(***************************************************************************)
(* tasks.setStatus                                                         *)
(***************************************************************************)
\* a wrong setStatus: without the early return of line 544
setStatusAlwaysPatches(id, status, actor, now) ==
    LET c == [op |-> "setStatus", id |-> id, status |-> status, actor |-> actor]
    IN  IF id \notin DOMAIN tasks THEN NotFound(c)
        ELSE LET currentStatus == normalizeLegacyStatus({tasks[id].status})
                 targetStatus == normalizeLegacyStatus({status})
             IN  /\ Called(c, Status(targetStatus), now)
                 /\ tasks' = [tasks EXCEPT ![id].status = targetStatus,
                                           ![id].order = getNextOrder(tasks, targetStatus),
                                           ![id].updatedAt = now]
                 /\ task_events' = Append(task_events,
                        TaskEvent(id, "task_status_changed", normalizeActor(actor),
                            [NoPayload EXCEPT !.from = {currentStatus},
                                              !.to = {targetStatus}], now))
                 /\ UNCHANGED <<messages, app_state, nextTaskId>>

\* a wrong setStatus: the task keeps its order when it changes column
setStatusKeepsOrder(id, status, actor, now) ==
    LET c == [op |-> "setStatus", id |-> id, status |-> status, actor |-> actor]
    IN  IF id \notin DOMAIN tasks THEN NotFound(c)
        ELSE LET task == tasks[id]
                 currentStatus == normalizeLegacyStatus({task.status})
                 targetStatus == normalizeLegacyStatus({status})
                 shouldNormalize == task.status # currentStatus
             IN  IF currentStatus = targetStatus /\ ~shouldNormalize
                 THEN /\ Called(c, Status(currentStatus), now)
                      /\ UNCHANGED db
                 ELSE /\ Called(c, Status(targetStatus), now)
                      /\ tasks' = [tasks EXCEPT ![id].status = targetStatus,
                                                ![id].updatedAt = now]
                      /\ task_events' = Append(task_events,
                             TaskEvent(id, "task_status_changed", normalizeActor(actor),
                                 [NoPayload EXCEPT !.from = {currentStatus},
                                                   !.to = {targetStatus}], now))
                      /\ UNCHANGED <<messages, app_state, nextTaskId>>

setStatus(id, status, actor, now) ==
    LET c == [op |-> "setStatus", id |-> id, status |-> status, actor |-> actor]
    IN  IF id \notin DOMAIN tasks THEN NotFound(c)
        ELSE LET task == tasks[id]
                 currentStatus == normalizeLegacyStatus({task.status})
                 targetStatus == normalizeLegacyStatus({status})
                 shouldNormalize == task.status # currentStatus
             IN  IF currentStatus = targetStatus /\ ~shouldNormalize
                 THEN /\ Called(c, Status(currentStatus), now)
                      /\ UNCHANGED db
                 ELSE /\ Called(c, Status(targetStatus), now)
                      /\ tasks' = [tasks EXCEPT ![id].status = targetStatus,
                                                ![id].order = getNextOrder(tasks, targetStatus),
                                                ![id].updatedAt = now]
                      /\ task_events' = Append(task_events,
                             TaskEvent(id, "task_status_changed", normalizeActor(actor),
                                 [NoPayload EXCEPT !.from = {currentStatus},
                                                   !.to = {targetStatus}], now))
                      /\ UNCHANGED <<messages, app_state, nextTaskId>>

(***************************************************************************)
(* tasks.cycleStatus                                                       *)
(***************************************************************************)
\* a wrong cycleStatus: the task keeps its updatedAt
cycleStatusKeepsTime(id, actor, now) ==
    LET c == [op |-> "cycleStatus", id |-> id, actor |-> actor]
    IN  IF id \notin DOMAIN tasks THEN NotFound(c)
        ELSE LET task == tasks[id]
                 currentStatus == normalizeLegacyStatus({task.status})
                 status == nextStatus(currentStatus)
             IN  /\ Called(c, Status(status), now)
                 /\ tasks' = [tasks EXCEPT ![id].status = status,
                                           ![id].order = getNextOrder(tasks, status)]
                 /\ task_events' = Append(task_events,
                        TaskEvent(id, "task_status_changed", normalizeActor(actor),
                            [NoPayload EXCEPT !.from = {currentStatus},
                                              !.to = {status}], now))
                 /\ UNCHANGED <<messages, app_state, nextTaskId>>

cycleStatus(id, actor, now) ==
    LET c == [op |-> "cycleStatus", id |-> id, actor |-> actor]
    IN  IF id \notin DOMAIN tasks THEN NotFound(c)
        ELSE LET task == tasks[id]
                 currentStatus == normalizeLegacyStatus({task.status})
                 status == nextStatus(currentStatus)
             IN  /\ Called(c, Status(status), now)
                 /\ tasks' = [tasks EXCEPT ![id].status = status,
                                           ![id].order = getNextOrder(tasks, status),
                                           ![id].updatedAt = now]
                 /\ task_events' = Append(task_events,
                        TaskEvent(id, "task_status_changed", normalizeActor(actor),
                            [NoPayload EXCEPT !.from = {currentStatus},
                                              !.to = {status}], now))
                 /\ UNCHANGED <<messages, app_state, nextTaskId>>

(***************************************************************************)
(* tasks.remove                                                            *)
(***************************************************************************)
\* a wrong remove: the task's messages and events are deleted with it
removeCascades(id) ==
    LET c == [op |-> "remove", id |-> id]
        keep(log) == SelectSeq(log, LAMBDA r : r.taskId # id)
    IN  IF id \notin DOMAIN tasks THEN Throws(c)
        ELSE /\ Called(c, Null, clock)
             /\ tasks' = [i \in DOMAIN tasks \ {id} |-> tasks[i]]
             /\ messages' = keep(messages)
             /\ task_events' = keep(task_events)
             /\ UNCHANGED <<app_state, nextTaskId>>

remove(id) ==
    LET c == [op |-> "remove", id |-> id]
    IN  IF id \notin DOMAIN tasks THEN Throws(c)
        ELSE /\ Called(c, Null, clock)
             /\ tasks' = [i \in DOMAIN tasks \ {id} |-> tasks[i]]
             /\ UNCHANGED <<messages, task_events, app_state, nextTaskId>>

(***************************************************************************)
(* tasks.updateDescription                                                 *)
(***************************************************************************)
\* a wrong updateDescription: without the comparison of line 592
updateDescriptionAlwaysPatches(id, description, actor, now) ==
    LET c == [op |-> "updateDescription", id |-> id, description |-> description,
              actor |-> actor]
    IN  IF id \notin DOMAIN tasks THEN NotFound(c)
        ELSE /\ Called(c, Null, now)
             /\ tasks' = [tasks EXCEPT ![id].description = description,
                                       ![id].updatedAt = now]
             /\ task_events' = Append(task_events,
                    TaskEvent(id, "task_description_updated", normalizeActor(actor),
                        [NoPayload EXCEPT !.textPreview = {buildPreview(trim(description))}],
                        now))
             /\ UNCHANGED <<messages, app_state, nextTaskId>>

updateDescription(id, description, actor, now) ==
    LET c == [op |-> "updateDescription", id |-> id, description |-> description,
              actor |-> actor]
    IN  IF id \notin DOMAIN tasks THEN NotFound(c)
        ELSE IF tasks[id].description = description
        THEN /\ Called(c, Null, clock)
             /\ UNCHANGED db
        ELSE /\ Called(c, Null, now)
             /\ tasks' = [tasks EXCEPT ![id].description = description,
                                       ![id].updatedAt = now]
             /\ task_events' = Append(task_events,
                    TaskEvent(id, "task_description_updated", normalizeActor(actor),
                        [NoPayload EXCEPT !.textPreview = {buildPreview(trim(description))}],
                        now))
             /\ UNCHANGED <<messages, app_state, nextTaskId>>

(***************************************************************************)
(* tasks.reorder                                                           *)
(***************************************************************************)
\* the ids the nested loops patch, in the order they patch them, each with its
\* index and its column's normalized status (lines 623-629)
\* a wrong columnPatches: positions counted from 1
RECURSIVE columnPatchesFromOne(_, _, _)
columnPatchesFromOne(column, index, acc) ==
    IF index >= Len(column.orderedIds) THEN acc
    ELSE columnPatchesFromOne(column, index + 1,
             Append(acc, [id |-> column.orderedIds[index + 1], order |-> index + 1,
                          status |-> normalizeLegacyStatus({column.status})]))

RECURSIVE columnPatches(_, _, _)
columnPatches(column, index, acc) ==
    IF index >= Len(column.orderedIds) THEN acc
    ELSE columnPatches(column, index + 1,
             Append(acc, [id |-> column.orderedIds[index + 1], order |-> index,
                          status |-> normalizeLegacyStatus({column.status})]))

RECURSIVE reorderPatches(_, _, _)
reorderPatches(columns, c, acc) ==
    IF c > Len(columns) THEN acc
    ELSE reorderPatches(columns, c + 1, columnPatches(columns[c], 0, acc))

\* a wrong applyPatches: the patch leaves the status out
RECURSIVE applyPatchesOrderOnly(_, _, _, _)
applyPatchesOrderOnly(tbl, patches, i, now) ==
    IF i > Len(patches) THEN tbl
    ELSE applyPatchesOrderOnly([tbl EXCEPT ![patches[i].id].order = patches[i].order,
                                           ![patches[i].id].updatedAt = now],
                               patches, i + 1, now)

\* a wrong applyPatches: a task written in this very millisecond is left alone
RECURSIVE applyPatchesUnlessNewer(_, _, _, _)
applyPatchesUnlessNewer(tbl, patches, i, now) ==
    IF i > Len(patches) THEN tbl
    ELSE applyPatchesUnlessNewer(
             IF tbl[patches[i].id].updatedAt >= now THEN tbl
             ELSE [tbl EXCEPT ![patches[i].id].order = patches[i].order,
                              ![patches[i].id].status = patches[i].status,
                              ![patches[i].id].updatedAt = now],
             patches, i + 1, now)

RECURSIVE applyPatches(_, _, _, _)
applyPatches(tbl, patches, i, now) ==
    IF i > Len(patches) THEN tbl
    ELSE applyPatches([tbl EXCEPT ![patches[i].id].order = patches[i].order,
                                  ![patches[i].id].status = patches[i].status,
                                  ![patches[i].id].updatedAt = now],
                      patches, i + 1, now)

\* a wrong reorder: the moved task is put in the column its metadata names
reorderFollowsMetadata(columns, movedTaskId, fromStatus, toStatus, fromIndex, toIndex, actor, now) ==
    LET c == [op |-> "reorder", columns |-> columns, movedTaskId |-> movedTaskId,
              fromStatus |-> fromStatus, toStatus |-> toStatus,
              fromIndex |-> fromIndex, toIndex |-> toIndex, actor |-> actor]
        patches == reorderPatches(columns, 1, <<>>)
        moved == movedTaskId # {}
        ev1 == IF moved /\ fromIndex # {} /\ toIndex # {} /\ fromIndex # toIndex
               THEN Append(task_events,
                        TaskEvent(The(movedTaskId), "task_reordered", normalizeActor(actor),
                            [NoPayload EXCEPT !.fromIndex = fromIndex,
                                              !.toIndex = toIndex], now))
               ELSE task_events
        normalizedFrom == normalizeLegacyStatus(fromStatus)
        normalizedTo == normalizeLegacyStatus(toStatus)
        ev2 == IF moved /\ fromStatus # {} /\ toStatus # {}
                  /\ normalizedFrom # normalizedTo
               THEN Append(ev1,
                        TaskEvent(The(movedTaskId), "task_status_changed",
                            normalizeActor(actor),
                            [NoPayload EXCEPT !.from = {normalizedFrom},
                                              !.to = {normalizedTo}], now))
               ELSE ev1
    IN  IF \E i \in 1..Len(patches) : patches[i].id \notin DOMAIN tasks
        THEN /\ Called(c, Threw, now)
             /\ UNCHANGED db
        ELSE /\ Called(c, Null, now)
             /\ tasks' = LET placed == applyPatches(tasks, patches, 1, now)
                         IN  IF moved /\ toStatus # {} /\ The(movedTaskId) \in DOMAIN tasks
                             THEN [placed EXCEPT ![The(movedTaskId)].status = normalizedTo]
                             ELSE placed
             /\ task_events' = ev2
             /\ UNCHANGED <<messages, app_state, nextTaskId>>

\* a wrong reorder: a move across columns records its change of index only
reorderRecordsOneEvent(columns, movedTaskId, fromStatus, toStatus, fromIndex, toIndex, actor, now) ==
    LET c == [op |-> "reorder", columns |-> columns, movedTaskId |-> movedTaskId,
              fromStatus |-> fromStatus, toStatus |-> toStatus,
              fromIndex |-> fromIndex, toIndex |-> toIndex, actor |-> actor]
        patches == reorderPatches(columns, 1, <<>>)
        moved == movedTaskId # {}
        indexMoved == moved /\ fromIndex # {} /\ toIndex # {} /\ fromIndex # toIndex
        ev1 == IF indexMoved
               THEN Append(task_events,
                        TaskEvent(The(movedTaskId), "task_reordered", normalizeActor(actor),
                            [NoPayload EXCEPT !.fromIndex = fromIndex,
                                              !.toIndex = toIndex], now))
               ELSE task_events
        normalizedFrom == normalizeLegacyStatus(fromStatus)
        normalizedTo == normalizeLegacyStatus(toStatus)
        ev2 == IF ~indexMoved /\ moved /\ fromStatus # {} /\ toStatus # {}
                  /\ normalizedFrom # normalizedTo
               THEN Append(ev1,
                        TaskEvent(The(movedTaskId), "task_status_changed",
                            normalizeActor(actor),
                            [NoPayload EXCEPT !.from = {normalizedFrom},
                                              !.to = {normalizedTo}], now))
               ELSE ev1
    IN  IF \E i \in 1..Len(patches) : patches[i].id \notin DOMAIN tasks
        THEN /\ Called(c, Threw, now)
             /\ UNCHANGED db
        ELSE /\ Called(c, Null, now)
             /\ tasks' = applyPatches(tasks, patches, 1, now)
             /\ task_events' = ev2
             /\ UNCHANGED <<messages, app_state, nextTaskId>>

reorder(columns, movedTaskId, fromStatus, toStatus, fromIndex, toIndex, actor, now) ==
    LET c == [op |-> "reorder", columns |-> columns, movedTaskId |-> movedTaskId,
              fromStatus |-> fromStatus, toStatus |-> toStatus,
              fromIndex |-> fromIndex, toIndex |-> toIndex, actor |-> actor]
        patches == reorderPatches(columns, 1, <<>>)
        moved == movedTaskId # {}
        ev1 == IF moved /\ fromIndex # {} /\ toIndex # {} /\ fromIndex # toIndex
               THEN Append(task_events,
                        TaskEvent(The(movedTaskId), "task_reordered", normalizeActor(actor),
                            [NoPayload EXCEPT !.fromIndex = fromIndex,
                                              !.toIndex = toIndex], now))
               ELSE task_events
        normalizedFrom == normalizeLegacyStatus(fromStatus)
        normalizedTo == normalizeLegacyStatus(toStatus)
        ev2 == IF moved /\ fromStatus # {} /\ toStatus # {}
                  /\ normalizedFrom # normalizedTo
               THEN Append(ev1,
                        TaskEvent(The(movedTaskId), "task_status_changed",
                            normalizeActor(actor),
                            [NoPayload EXCEPT !.from = {normalizedFrom},
                                              !.to = {normalizedTo}], now))
               ELSE ev1
    IN  IF \E i \in 1..Len(patches) : patches[i].id \notin DOMAIN tasks
        THEN /\ Called(c, Threw, now)
             /\ UNCHANGED db
        ELSE /\ Called(c, Null, now)
             /\ tasks' = applyPatches(tasks, patches, 1, now)
             /\ task_events' = ev2
             /\ UNCHANGED <<messages, app_state, nextTaskId>>

(***************************************************************************)
(* messages.send                                                           *)
(***************************************************************************)
\* a wrong send: the message is stored and no event is recorded
sendWithoutEvent(taskId, text, author, now) ==
    LET c == [op |-> "send", taskId |-> taskId, text |-> text, author |-> author]
    IN  IF trim(text) = <<>> \/ trim(author) = <<>>
        THEN /\ Called(c, Null, clock)
             /\ UNCHANGED db
        ELSE /\ Called(c, [kind |-> "message", index |-> Len(messages) + 1], now)
             /\ messages' = Append(messages,
                    [taskId |-> taskId, text |-> trim(text), author |-> trim(author),
                     createdAt |-> now])
             /\ UNCHANGED <<tasks, task_events, app_state, nextTaskId>>

\* a wrong send: only the text is validated
sendChecksTextOnly(taskId, text, author, now) ==
    LET c == [op |-> "send", taskId |-> taskId, text |-> text, author |-> author]
        trimmedText == trim(text)
        trimmedAuthor == trim(author)
    IN  IF trimmedText = <<>>
        THEN /\ Called(c, Null, clock)
             /\ UNCHANGED db
        ELSE /\ Called(c, [kind |-> "message", index |-> Len(messages) + 1], now)
             /\ messages' = Append(messages,
                    [taskId |-> taskId, text |-> trimmedText, author |-> trimmedAuthor,
                     createdAt |-> now])
             /\ task_events' = Append(task_events,
                    TaskEvent(taskId, "message_sent", normalizeActor({trimmedAuthor}),
                        [NoPayload EXCEPT !.textPreview = {buildPreview(trimmedText)}],
                        now))
             /\ UNCHANGED <<tasks, app_state, nextTaskId>>

\* a wrong send: the message keeps the text and the author as they were given
sendStoresUntrimmed(taskId, text, author, now) ==
    LET c == [op |-> "send", taskId |-> taskId, text |-> text, author |-> author]
        trimmedText == trim(text)
        trimmedAuthor == trim(author)
    IN  IF trimmedText = <<>> \/ trimmedAuthor = <<>>
        THEN /\ Called(c, Null, clock)
             /\ UNCHANGED db
        ELSE /\ Called(c, [kind |-> "message", index |-> Len(messages) + 1], now)
             /\ messages' = Append(messages,
                    [taskId |-> taskId, text |-> text, author |-> author,
                     createdAt |-> now])
             /\ task_events' = Append(task_events,
                    TaskEvent(taskId, "message_sent", normalizeActor({trimmedAuthor}),
                        [NoPayload EXCEPT !.textPreview = {buildPreview(trimmedText)}],
                        now))
             /\ UNCHANGED <<tasks, app_state, nextTaskId>>

send(taskId, text, author, now) ==
    LET c == [op |-> "send", taskId |-> taskId, text |-> text, author |-> author]
        trimmedText == trim(text)
        trimmedAuthor == trim(author)
    IN  IF trimmedText = <<>> \/ trimmedAuthor = <<>>
        THEN /\ Called(c, Null, clock)
             /\ UNCHANGED db
        ELSE /\ Called(c, [kind |-> "message", index |-> Len(messages) + 1], now)
             /\ messages' = Append(messages,
                    [taskId |-> taskId, text |-> trimmedText, author |-> trimmedAuthor,
                     createdAt |-> now])
             /\ task_events' = Append(task_events,
                    TaskEvent(taskId, "message_sent", normalizeActor({trimmedAuthor}),
                        [NoPayload EXCEPT !.textPreview = {buildPreview(trimmedText)}],
                        now))
             /\ UNCHANGED <<tasks, app_state, nextTaskId>>

(***************************************************************************)
(* migrations.fixTaskStatuses                                              *)
(***************************************************************************)
fixTaskStatuses(now) ==
    LET stale == {id \in DOMAIN tasks :
                     tasks[id].status # normalizeLegacyStatus({tasks[id].status})}
    IN  /\ Called([op |-> "fixTaskStatuses"],
                  [kind |-> "count", count |-> Cardinality(stale)], now)
        /\ tasks' = [id \in DOMAIN tasks |->
                        IF id \in stale
                        THEN [tasks[id] EXCEPT
                                 !.status = normalizeLegacyStatus({tasks[id].status}),
                                 !.updatedAt = now]
                        ELSE tasks[id]]
        /\ UNCHANGED <<messages, task_events, app_state, nextTaskId>>

(***************************************************************************)
(* Initial states: the empty database of a fresh deployment, or a board    *)
(* that predates the status migration and still stores a legacy status.    *)
(***************************************************************************)
OldTask(title, status, order, at) ==
    [title |-> title, status |-> status, description |-> <<>>, order |-> order,
     createdAt |-> at, updatedAt |-> at]

LegacyTasks ==
    (1 :> OldTask(<<"x">>, "active", 0, -3))
    @@ (2 :> OldTask(<<"y">>, "in_progress", 0, -2))
    @@ (3 :> OldTask(<<"z">>, "done", 0, -1))

LegacyEvents ==
    << TaskEvent(1, "task_created", "anonymous", NoPayload, -3),
       TaskEvent(2, "task_created", "demo-user", NoPayload, -2),
       TaskEvent(3, "task_created", "demo-user", NoPayload, -1) >>

(***************************************************************************)
(* The speech-to-text proxy (api/stt, server/index.js).  One request is    *)
(* served in steps: the checks of the request, the upload to the upstream  *)
(* service, the polling of the task status, the fetch of the               *)
(* transcription.  A body is the set of the fields it carries.             *)
(***************************************************************************)
TimeoutMs == 60000

PollIntervalMs == 1500

\* what a fetch of the upstream service can give: an OK response with a
\* payload, a non-OK response with the upstream's status, or a rejection
NoAnswer == [kind |-> "none", code |-> 0, payload |-> ""]

Ok(payload) == [kind |-> "ok", code |-> 200, payload |-> payload]

NotOk(code) == [kind |-> "error", code |-> code, payload |-> "message"]

FetchThrows == [kind |-> "throws", code |-> 0, payload |-> ""]

NoResponse == [status |-> 0, body |-> {}]

Idle ==
    [pc |-> "idle", method |-> "", token |-> FALSE, form |-> "", stage |-> "",
     answer |-> NoAnswer, status |-> "pending", elapsed |-> 0,
     response |-> NoResponse, served |-> 0]

\* res.status(status).json(body): the request is answered
respond(s, status, body) ==
    [s EXCEPT !.pc = "done", !.response = [status |-> status, body |-> body]]

\* the answer to a non-OK response of the upstream service
relayAsBadGateway(s, a) == respond(s, 502, {"error"})

relay(s, a) == respond(s, a.code, {"error"})

\* the catch block around the body of the handler
caught(s) == respond(s, 500, {"error"})

\* the checks before the first fetch
handler(served, method, token, form) ==
    LET s == [Idle EXCEPT !.method = method, !.token = token, !.form = form,
                          !.stage = "request", !.served = served + 1]
    IN  IF method # "POST" THEN respond(s, 405, {"error"})
        ELSE IF ~token THEN respond(s, 400, {"error"})
        ELSE IF form = "json" THEN respond(s, 400, {"error"})
        ELSE IF form = "multipart-no-boundary" THEN respond(s, 400, {"error"})
        ELSE IF form = "broken-stream" THEN caught(s)
        ELSE IF form = "multipart-no-file" THEN respond(s, 400, {"error"})
        ELSE [s EXCEPT !.pc = "upload"]

\* the upload and what follows its answer
upload(s, a) ==
    LET t == [s EXCEPT !.stage = "upload", !.answer = a]
    IN  IF a.kind = "throws" THEN caught(t)
        ELSE IF a.kind = "error" THEN relay(t, a)
        ELSE IF a.payload # "task_id" THEN respond(t, 502, {"error"})
        ELSE [t EXCEPT !.pc = "poll", !.status = "pending", !.elapsed = 0]

\* the polling loop without its sleep: the time does not advance
pollWithoutSleep(s, a, latency) ==
    LET status == IF a.kind = "ok" /\ a.payload # "" THEN a.payload ELSE s.status
        t == [s EXCEPT !.stage = "status", !.answer = a, !.status = status]
    IN  IF a.kind = "throws" THEN caught(t)
        ELSE IF a.kind = "error" THEN relay(t, a)
        ELSE IF status = "completed" THEN [t EXCEPT !.pc = "transcription"]
        ELSE IF status = "failed"
             THEN respond(t, 502, {"error", "task_id", "status"})
        ELSE t

\* one turn of the polling loop; latency is the time the fetch took
poll(s, a, latency) ==
    LET status == IF a.kind = "ok" /\ a.payload # "" THEN a.payload ELSE s.status
        t == [s EXCEPT !.stage = "status", !.answer = a, !.status = status]
    IN  IF a.kind = "throws" THEN caught(t)
        ELSE IF a.kind = "error" THEN relay(t, a)
        ELSE IF status = "completed" THEN [t EXCEPT !.pc = "transcription"]
        ELSE IF status = "failed"
             THEN respond(t, 502, {"error", "task_id", "status"})
        ELSE [t EXCEPT !.elapsed = s.elapsed + latency + PollIntervalMs]

\* the loop ended because the time was up
timeout(s) ==
    respond([s EXCEPT !.stage = "timeout"], 504, {"error", "task_id", "status"})

\* the fetch of the transcription and the final answer
transcription(s, a) ==
    LET t == [s EXCEPT !.stage = "transcription", !.answer = a]
    IN  IF a.kind = "throws" THEN caught(t)
        ELSE IF a.kind = "error" THEN relay(t, a)
        ELSE respond(t, 200, {"text", "task_id"})

(***************************************************************************)
(* The client reducer (src/domain/todo.ts): the board kept in the browser  *)
(* alone.  A task id `t-<n>` is the number n; the ids t-1, t-2, t-3 of the *)
(* seed tasks are -1, -2, -3, which are no values of the clock.            *)
(***************************************************************************)
LocalTask(id, title, description, status, createdAt, updatedAt) ==
    [id |-> id, title |-> title, description |-> description, status |-> status,
     createdAt |-> createdAt, updatedAt |-> updatedAt]

todoNextStatus(status) ==
    IF status = "backlog" THEN "in_progress"
    ELSE IF status = "in_progress" THEN "done"
    ELSE "backlog"

EmptyState == [tasks |-> <<>>, filter |-> "all"]

initialState ==
    [tasks |-> << LocalTask(-1, <<"x">>, <<"d">>, "backlog", -100000, -100000),
                  LocalTask(-2, <<"y">>, <<"e">>, "done", -90000, -90000),
                  LocalTask(-3, <<"z">>, <<"f">>, "in_progress", -80000, -80000) >>,
     filter |-> "all"]

\* the action creators
addAction(title) == [type |-> "add", title |-> title]

setStatusAction(id, status) == [type |-> "setStatus", id |-> id, status |-> status]

cycleStatusAction(id) == [type |-> "cycleStatus", id |-> id]

removeTask(id) == [type |-> "remove", id |-> id]

restoreTask(task, index) == [type |-> "restore", task |-> task, index |-> index]

setFilter(filter) == [type |-> "setFilter", filter |-> filter]

reorderTasks(orderedIds) == [type |-> "reorder", orderedIds |-> orderedIds]

updateDescriptionAction(id, description) ==
    [type |-> "updateDescription", id |-> id, description |-> description]

\* a number as restore is given it: finite, or NaN / an infinity
Finite(n) == [finite |-> TRUE, value |-> n]

NotFinite == [finite |-> FALSE, value |-> 0]

\* Array.prototype.map over the tasks
mapTasks(ts, f(_)) == [i \in 1..Len(ts) |-> f(ts[i])]

Ids(ts) == {ts[i].id : i \in 1..Len(ts)}

\* new Map(tasks.map((task) => [task.id, task])).get(id): the last entry wins
taskMap(ts, id) ==
    ts[CHOOSE i \in 1..Len(ts) :
          /\ ts[i].id = id
          /\ \A j \in (i + 1)..Len(ts) : ts[j].id # id]

Min2(a, b) == IF a < b THEN a ELSE b

reducerAdd(st, title, timestamp) ==
    LET trimmed == trim(title)
        next == LocalTask(timestamp, trimmed, <<>>, "backlog", timestamp, timestamp)
    IN  IF trimmed = <<>> THEN st
        ELSE [st EXCEPT !.tasks = <<next>> \o st.tasks]

reducerSetStatus(st, id, status, timestamp) ==
    LET changes(task) == task.id = id /\ task.status # status
        step(task) == IF changes(task)
                      THEN [task EXCEPT !.status = status, !.updatedAt = timestamp]
                      ELSE task
    IN  IF \E i \in 1..Len(st.tasks) : changes(st.tasks[i])
        THEN [st EXCEPT !.tasks = mapTasks(st.tasks, step)]
        ELSE st

reducerCycleStatus(st, id, timestamp) ==
    LET step(task) == IF task.id = id
                      THEN [task EXCEPT !.status = todoNextStatus(task.status),
                                        !.updatedAt = timestamp]
                      ELSE task
    IN  IF id \in Ids(st.tasks)
        THEN [st EXCEPT !.tasks = mapTasks(st.tasks, step)]
        ELSE st

reducerRemove(st, id) ==
    LET keep(task) == task.id # id
    IN  [st EXCEPT !.tasks = SelectSeq(st.tasks, keep)]

reducerRestore(st, task, index) ==
    LET n == Len(st.tasks)
        safeIndex == IF index.finite THEN Min2(MaxOf(0, index.value), n) ELSE 0
    IN  [st EXCEPT !.tasks = SubSeq(st.tasks, 1, safeIndex) \o <<task>>
                              \o SubSeq(st.tasks, safeIndex + 1, n)]

reducerReorder(st, orderedIds) ==
    LET known(id) == id \in Ids(st.tasks)
        found == SelectSeq(orderedIds, known)
        listed == [i \in 1..Len(found) |-> taskMap(st.tasks, found[i])]
        used == {found[i] : i \in 1..Len(found)}
        unused(task) == task.id \notin used
    IN  IF orderedIds = <<>> \/ found = <<>> THEN st
        ELSE [st EXCEPT !.tasks = listed \o SelectSeq(st.tasks, unused)]

reducerUpdateDescription(st, id, description, timestamp) ==
    LET changes(task) == task.id = id /\ task.description # description
        step(task) == IF changes(task)
                      THEN [task EXCEPT !.description = description,
                                        !.updatedAt = timestamp]
                      ELSE task
    IN  IF \E i \in 1..Len(st.tasks) : changes(st.tasks[i])
        THEN [st EXCEPT !.tasks = mapTasks(st.tasks, step)]
        ELSE st

reducer(st, action, timestamp) ==
    CASE action.type = "add" -> reducerAdd(st, action.title, timestamp)
      [] action.type = "setStatus" ->
            reducerSetStatus(st, action.id, action.status, timestamp)
      [] action.type = "cycleStatus" -> reducerCycleStatus(st, action.id, timestamp)
      [] action.type = "remove" -> reducerRemove(st, action.id)
      [] action.type = "restore" -> reducerRestore(st, action.task, action.index)
      [] action.type = "setFilter" -> [st EXCEPT !.filter = action.filter]
      [] action.type = "reorder" -> reducerReorder(st, action.orderedIds)
      [] action.type = "rehydrate" -> The(action.loaded)
      [] action.type = "updateDescription" ->
            reducerUpdateDescription(st, action.id, action.description, timestamp)
      [] OTHER -> st

\* dispatch(action): the reducer runs and reads the clock once
Dispatch(action) ==
    \E timestamp \in DateNow :
        /\ todoState' = reducer(todoState, action, timestamp)
        /\ dispatched' = Append(dispatched, [action |-> action, before |-> todoState])
        /\ clock' = timestamp

LocalInit ==
    /\ todoState = initialState
    /\ dispatched = <<>>
    /\ localStorage = {}

\* the tables and history of the backend
store == <<tasks, messages, task_events, app_state, nextTaskId, pre, trace>>

dispatches == Len(dispatched)

\* an id of no task
UnknownId == 99

Init ==
    /\ \/ /\ tasks = <<>>
          /\ task_events = <<>>
          /\ nextTaskId = 1
       \/ /\ tasks = LegacyTasks
          /\ task_events = LegacyEvents
          /\ nextTaskId = 4
    /\ messages = <<>>
    /\ app_state = <<>>
    /\ clock = 0
    /\ pre = [tasks |-> tasks, messages |-> <<>>, task_events |-> task_events,
              app_state |-> <<>>]
    /\ trace = <<>>
    /\ stt = Idle
    /\ LocalInit

(***************************************************************************)
(* The arguments the clients' calls are drawn from.                        *)
(***************************************************************************)
Bob == <<"B", "o", "b">>

Titles == { <<"a">>, <<" ", "b", " ">> }

BlankTitles == { <<>>, <<" ", " ">> }

CreateOptions ==
    { [description |-> {}, status |-> {}, order |-> {}, actor |-> {DemoUser}],
      [description |-> {<<"d">>}, status |-> {"completed"}, order |-> {}, actor |-> {}],
      [description |-> {}, status |-> {"in-progress"}, order |-> {1}, actor |-> {Bob}] }

CreateArgs ==
    [title : Titles, opt : CreateOptions]
    \cup [title : BlankTitles, opt : {[description |-> {}, status |-> {}, order |-> {},
                                       actor |-> {DemoUser}]}]

\* the oldest task on the board and the task inserted last (which may be gone)
TaskIdArgs ==
    (IF DOMAIN tasks = {} THEN {} ELSE {MinOf(DOMAIN tasks)})
    \cup (IF nextTaskId > 1 THEN {nextTaskId - 1} ELSE {})

\* messages are sent on the task inserted last (which may be gone)
SendTaskIds == IF nextTaskId > 1 THEN {nextTaskId - 1} ELSE {}

SetStatusArgs ==
    { [status |-> "done", actor |-> {}],
      [status |-> "in-progress", actor |-> {<<" ">> \o DemoUser}],
      [status |-> "backlog", actor |-> {Bob}] }

Descriptions == { <<"d">>, <<" ", "e">> }

Column(status, orderedIds) == [status |-> status, orderedIds |-> orderedIds]

NoMove == [movedTaskId |-> {}, fromStatus |-> {}, toStatus |-> {}, fromIndex |-> {},
           toIndex |-> {}, actor |-> {}]

Move(id, fromStatus, toStatus, fromIndex, toIndex, actor) ==
    [movedTaskId |-> {id}, fromStatus |-> fromStatus, toStatus |-> toStatus,
     fromIndex |-> fromIndex, toIndex |-> toIndex, actor |-> actor]

ReorderArgs ==
    UNION { { [columns |-> << Column("done", <<a>>) >>, move |-> NoMove],
              [columns |-> << Column("done", <<a>>) >>,
               move |-> Move(a, {"done"}, {"backlog"}, {1}, {0}, {DemoUser})],
              [columns |-> << Column("in-progress", <<a, a>>) >>,
               move |-> Move(a, {}, {}, {0}, {1}, {Bob})],
              [columns |-> << Column("done", <<a>>), Column("active", <<a>>) >>,
               move |-> Move(a, {"active"}, {"backlog"}, {0}, {0}, {})] }
            : a \in TaskIdArgs }
    \cup { [columns |-> << Column("done", <<b, a>>) >>,
            move |-> Move(b, {"backlog"}, {"completed"}, {0}, {0}, {DemoUser})]
           : <<a, b>> \in {p \in TaskIdArgs \X TaskIdArgs : p[1] # p[2]} }
    \cup { [columns |-> <<>>, move |-> NoMove],
           [columns |-> <<>>,
            move |-> [NoMove EXCEPT !.fromStatus = {"backlog"}, !.toStatus = {"done"},
                                    !.fromIndex = {0}, !.toIndex = {1}]] }

SendArgs ==
    { [text |-> <<" ">>, author |-> Bob],
      [text |-> <<"h", "i">>, author |-> <<" ", " ">>],
      [text |-> <<"h", "i">>, author |-> Bob],
      [text |-> <<" ", "h", "i", " ">>, author |-> DemoUser \o <<" ">>] }

\* A client may call a mutation while the exploration budget lasts.
Budget == ops < MaxOps

Create ==
    /\ Budget
    /\ \E a \in CreateArgs, now \in DateNow :
          create(a.title, a.opt.description, a.opt.status, a.opt.order, a.opt.actor, now)

SeedDemoData ==
    /\ Budget
    /\ \E language \in demoSeedLanguage, now \in DateNow : seedDemoData(language, now)

SetStatus ==
    /\ Budget
    /\ \E id \in TaskIdArgs, a \in SetStatusArgs, now \in DateNow :
          setStatus(id, a.status, a.actor, now)

CycleStatus ==
    /\ Budget
    /\ \E id \in TaskIdArgs, now \in DateNow : cycleStatus(id, {DemoUser}, now)

Remove ==
    /\ Budget
    /\ \E id \in TaskIdArgs : remove(id)

UpdateDescription ==
    /\ Budget
    /\ \E id \in TaskIdArgs, description \in Descriptions, now \in DateNow :
          updateDescription(id, description, {}, now)

Reorder ==
    /\ Budget
    /\ \E a \in ReorderArgs, now \in DateNow :
          reorder(a.columns, a.move.movedTaskId, a.move.fromStatus, a.move.toStatus,
                  a.move.fromIndex, a.move.toIndex, a.move.actor, now)

Send ==
    /\ Budget
    /\ \E id \in SendTaskIds, a \in SendArgs, now \in DateNow :
          send(id, a.text, a.author, now)

FixTaskStatuses ==
    /\ Budget
    /\ \E now \in DateNow : fixTaskStatuses(now)

Next ==
    \/ Create
    \/ SeedDemoData
    \/ SetStatus
    \/ CycleStatus
    \/ Remove
    \/ UpdateDescription
    \/ Reorder
    \/ Send
    \/ FixTaskStatuses

Spec == Init /\ [][Next]_vars

(***************************************************************************)
(* Two narrow specifications of the same store, for properties of longer   *)
(* call sequences: a board on which tasks are only cycled and removed, and *)
(* a database that is only seeded and pruned.                              *)
(***************************************************************************)
CycleAgain ==
    /\ ops + dispatches < MaxCycleOps
    /\ \E id \in TaskIdArgs, now \in DateNow : cycleStatus(id, {DemoUser}, now)

RemoveCycled ==
    /\ ops + dispatches < MaxCycleOps
    /\ \E id \in TaskIdArgs : remove(id)

\* the same button on the local board
CycleLocal ==
    /\ ops + dispatches < MaxCycleOps
    /\ \E id \in {-1, UnknownId} : Dispatch(cycleStatusAction(id))
    /\ UNCHANGED <<store, stt, localStorage>>

CycleNext ==
    \/ CycleAgain
    \/ RemoveCycled
    \/ CycleLocal

CycleSpec == Init /\ [][CycleNext]_vars

SeedAgain ==
    /\ ops < MaxSeedOps
    /\ \E language \in demoSeedLanguage, now \in DateNow : seedDemoData(language, now)

RemoveSeeded ==
    /\ ops < MaxSeedOps
    /\ \E id \in TaskIdArgs : remove(id)

SeedNext ==
    \/ SeedAgain
    \/ RemoveSeeded

SeedSpec == Init /\ [][SeedNext]_vars

\* a board on which tasks are created, described and removed
CreateDescribed ==
    /\ ops < MaxDescribeOps
    /\ \E a \in CreateArgs, now \in DateNow :
          create(a.title, a.opt.description, a.opt.status, a.opt.order, a.opt.actor, now)

DescribeAgain ==
    /\ ops < MaxDescribeOps
    /\ \E id \in TaskIdArgs, description \in Descriptions, now \in DateNow :
          updateDescription(id, description, {}, now)

RemoveDescribed ==
    /\ ops < MaxDescribeOps
    /\ \E id \in TaskIdArgs : remove(id)

DescribeNext ==
    \/ CreateDescribed
    \/ DescribeAgain
    \/ RemoveDescribed

DescribeSpec == Init /\ [][DescribeNext]_vars

(***************************************************************************)
(* The board of a browser client (App) and its drag-and-drop handler, which *)
(* turns a drop into one reorder call computed from the client's snapshot  *)
(* of the tasks.                                                           *)
(***************************************************************************)
COLUMN_ORDER == <<"backlog", "in_progress", "done">>

normalizeTaskStatus(status) == IF status \in TaskStatus THEN status ELSE "backlog"

\* tasks.list returns the tasks by order (ties by creation); the stable sort of
\* tasksByStatus keeps that
RECURSIVE sortByOrder(_, _)
sortByOrder(tbl, S) ==
    IF S = {} THEN <<>>
    ELSE LET first == CHOOSE i \in S : \A j \in S :
                          \/ tbl[i].order < tbl[j].order
                          \/ tbl[i].order = tbl[j].order /\ i <= j
         IN  <<first>> \o sortByOrder(tbl, S \ {first})

statusToIds(snapshot, status) ==
    sortByOrder(snapshot,
                {id \in DOMAIN snapshot : normalizeTaskStatus(snapshot[id].status) = status})

\* Array.prototype.indexOf, filter and splice, with indices from 0
indexOf(ids, id) ==
    IF \E i \in 1..Len(ids) : ids[i] = id
    THEN MinOf({i \in 1..Len(ids) : ids[i] = id}) - 1
    ELSE -1

without(ids, id) == SelectSeq(ids, LAMBDA x : x # id)

spliceOut(ids, index) == SubSeq(ids, 1, index) \o SubSeq(ids, index + 2, Len(ids))

\* a wrong splice: the element goes to the end of the list
spliceInAtEnd(ids, index, id) == Append(ids, id)

spliceIn(ids, index, id) == SubSeq(ids, 1, index) \o <<id>> \o SubSeq(ids, index + 1, Len(ids))

arrayMove(ids, from, to) == spliceIn(spliceOut(ids, from), to, ids[from + 1])

\* overrides is a function from some of the statuses to their new lists
buildColumns(snapshot, overrides) ==
    [c \in 1..Len(COLUMN_ORDER) |->
        Column(COLUMN_ORDER[c],
               IF COLUMN_ORDER[c] \in DOMAIN overrides THEN overrides[COLUMN_ORDER[c]]
               ELSE statusToIds(snapshot, COLUMN_ORDER[c]))]

OverColumn(status) == [kind |-> "column", status |-> status]

OverTask(id) == [kind |-> "task", id |-> id]

\* the reorder calls the handler issues for a drop: one, or none when it returns early
handleDragEnd(snapshot, activeTaskId, over, insertAfterOver, actorName) ==
    IF activeTaskId \notin DOMAIN snapshot THEN {}
    ELSE IF over.kind = "task" /\ over.id = activeTaskId THEN {}
    ELSE IF over.kind = "task" /\ over.id \notin DOMAIN snapshot THEN {}
    ELSE
    LET fromStatus == normalizeTaskStatus(snapshot[activeTaskId].status)
        isOverColumn == over.kind = "column"
        toStatus == IF isOverColumn THEN over.status
                    ELSE normalizeTaskStatus(snapshot[over.id].status)
        fromIds == statusToIds(snapshot, fromStatus)
        fromIndex == indexOf(fromIds, activeTaskId)
        reorderTaskList(overrides, toIndex) ==
            [columns |-> buildColumns(snapshot, overrides),
             move |-> Move(activeTaskId, {fromStatus}, {toStatus}, {fromIndex}, {toIndex},
                           {actorName})]
    IN  IF fromStatus = toStatus
        THEN IF isOverColumn
             THEN LET toIndex == Len(fromIds) - 1
                  IN  IF fromIndex = toIndex THEN {}
                      ELSE {reorderTaskList(fromStatus :> arrayMove(fromIds, fromIndex, toIndex), toIndex)}
             ELSE LET overIndex == indexOf(fromIds, over.id)
                      toIndex == overIndex - (IF fromIndex < overIndex THEN 1 ELSE 0)
                                           + (IF insertAfterOver THEN 1 ELSE 0)
                  IN  IF toIndex = fromIndex THEN {}
                      ELSE {reorderTaskList(fromStatus :> spliceIn(spliceOut(fromIds, fromIndex),
                                                                    toIndex, activeTaskId),
                                            toIndex)}
        ELSE LET targetIds == statusToIds(snapshot, toStatus)
                 baseIndex == IF isOverColumn THEN Len(targetIds)
                              ELSE indexOf(targetIds, over.id)
                 insertAfter == ~isOverColumn /\ insertAfterOver
                 index == (IF baseIndex = -1 THEN Len(targetIds) ELSE baseIndex)
                          + (IF insertAfter THEN 1 ELSE 0)
                 safeInsertIndex == IF index > Len(targetIds) THEN Len(targetIds) ELSE index
                 nextFromIds == without(fromIds, activeTaskId)
                 nextTargetIds == spliceIn(without(targetIds, activeTaskId),
                                           safeInsertIndex, activeTaskId)
             IN  {reorderTaskList((fromStatus :> nextFromIds) @@ (toStatus :> nextTargetIds),
                       safeInsertIndex)}

\* a caller of the public mutation that sends only the columns its move touches
touchedColumns(a) ==
    SelectSeq(a.columns, LAMBDA column : {column.status} \in {a.move.fromStatus,
                                                              a.move.toStatus})

\* what the drops are drawn from
DropTargets ==
    {OverColumn("backlog"), OverColumn("done")} \cup {OverTask(id) : id \in TaskIdArgs}

\* Two clients whose boards show the same snapshot: the tasks as they were
\* before the other client's mutation was applied.
BrowserDrag ==
    /\ ops < MaxConcurrentOps
    /\ \E active \in DOMAIN pre.tasks, over \in DropTargets, below \in BOOLEAN,
          now \in DateNow :
          \E a \in handleDragEnd(pre.tasks, active, over, below, DemoUser) :
              reorder(a.columns, a.move.movedTaskId, a.move.fromStatus, a.move.toStatus,
                      a.move.fromIndex, a.move.toIndex, a.move.actor, now)

CallerMove ==
    /\ ops < MaxConcurrentOps
    /\ \E active \in DOMAIN pre.tasks, over \in DropTargets, below \in BOOLEAN,
          now \in DateNow :
          \E a \in handleDragEnd(pre.tasks, active, over, below, Bob) :
              reorder(touchedColumns(a), a.move.movedTaskId, a.move.fromStatus,
                      a.move.toStatus, a.move.fromIndex, a.move.toIndex, a.move.actor, now)

ConcurrentNext ==
    \/ BrowserDrag
    \/ CallerMove

ConcurrentSpec == Init /\ [][ConcurrentNext]_vars

(***************************************************************************)
(* The status normalizer on its own, applied to every kind of input: the   *)
(* six known spellings, no status (undefined or null, {}), and strings it  *)
(* does not know.                                                          *)
(***************************************************************************)
StatusInputs ==
    {{x} : x \in legacyTaskStatus} \cup {{}, {"archived"}, {""}, {"Done"}}

NormalizeInit ==
    /\ tasks = <<>>
    /\ messages = <<>>
    /\ task_events = <<>>
    /\ app_state = <<>>
    /\ nextTaskId = 1
    /\ clock = 0
    /\ pre = Tables
    /\ trace = <<>>
    /\ stt = Idle
    /\ LocalInit

NormalizeLegacyStatus ==
    /\ ops < MaxNormalizeOps
    /\ \E status \in StatusInputs :
          /\ trace' = Append(trace, [call |-> [op |-> "normalizeLegacyStatus",
                                               status |-> status],
                                     ret |-> Status(normalizeLegacyStatus(status)),
                                     before |-> Sizes])
          /\ UNCHANGED <<tasks, messages, task_events, app_state, nextTaskId, clock, pre, stt, local>>

NormalizeSpec == NormalizeInit /\ [][NormalizeLegacyStatus]_vars

(***************************************************************************)
(* The speech-to-text proxy serving requests.  The environment chooses     *)
(* the request, whether the token is configured, and what each fetch of    *)
(* the upstream service gives.                                             *)
(***************************************************************************)
Methods == {"POST", "GET"}

Forms ==
    {"multipart", "multipart-no-boundary", "multipart-no-file", "json",
     "broken-stream"}

UpstreamErrors == {401, 500, 503}

Latencies == {0, 30000}

UploadAnswers ==
    {Ok("task_id"), Ok(""), FetchThrows} \cup {NotOk(c) : c \in UpstreamErrors}

StatusAnswers ==
    {Ok("pending"), Ok("processing"), Ok("completed"), Ok("failed"), Ok(""),
     FetchThrows} \cup {NotOk(c) : c \in UpstreamErrors}

TranscriptionAnswers ==
    {Ok("segments"), Ok(""), FetchThrows} \cup {NotOk(c) : c \in UpstreamErrors}

SttInit == NormalizeInit

SttRequest ==
    /\ stt.pc \in {"idle", "done"}
    /\ stt.served < MaxSttRequests
    /\ \E method \in Methods, token \in BOOLEAN, form \in Forms :
          stt' = handler(stt.served, method, token, form)
    /\ UNCHANGED <<tasks, messages, task_events, app_state, nextTaskId, clock, pre, trace, local>>

SttUpload ==
    /\ stt.pc = "upload"
    /\ \E a \in UploadAnswers : stt' = upload(stt, a)
    /\ UNCHANGED <<tasks, messages, task_events, app_state, nextTaskId, clock, pre, trace, local>>

SttPoll ==
    /\ stt.pc = "poll"
    /\ stt.elapsed < TimeoutMs
    /\ \E a \in StatusAnswers, latency \in Latencies : stt' = poll(stt, a, latency)
    /\ UNCHANGED <<tasks, messages, task_events, app_state, nextTaskId, clock, pre, trace, local>>

SttTimeout ==
    /\ stt.pc = "poll"
    /\ ~(stt.elapsed < TimeoutMs)
    /\ stt' = timeout(stt)
    /\ UNCHANGED <<tasks, messages, task_events, app_state, nextTaskId, clock, pre, trace, local>>

SttTranscription ==
    /\ stt.pc = "transcription"
    /\ \E a \in TranscriptionAnswers : stt' = transcription(stt, a)
    /\ UNCHANGED <<tasks, messages, task_events, app_state, nextTaskId, clock, pre, trace, local>>

SttNext ==
    \/ SttRequest
    \/ SttUpload
    \/ SttPoll
    \/ SttTimeout
    \/ SttTranscription

SttSpec == SttInit /\ [][SttNext]_vars

\* every fetch of the upstream service returns and the handler goes on
SttLiveSpec ==
    /\ SttSpec
    /\ WF_vars(SttUpload)
    /\ WF_vars(SttPoll)
    /\ WF_vars(SttTimeout)
    /\ WF_vars(SttTranscription)

(***************************************************************************)
(* The client reducer given actions.  The board starts empty or with the   *)
(* three seed tasks of initialState.                                       *)
(***************************************************************************)
ReducerInit ==
    /\ tasks = <<>>
    /\ messages = <<>>
    /\ task_events = <<>>
    /\ app_state = <<>>
    /\ nextTaskId = 1
    /\ clock = 0
    /\ pre = Tables
    /\ trace = <<>>
    /\ stt = Idle
    /\ todoState \in {EmptyState, initialState}
    /\ dispatched = <<>>
    /\ localStorage = {}

\* the ids on the board and one that is on no board
LocalIds == Ids(todoState.tasks) \cup {UnknownId}

\* the lists of at most two ids a reorder is given
OrderedIds ==
    {<<>>} \cup {<<a>> : a \in LocalIds} \cup {<<a, b>> : a \in LocalIds, b \in LocalIds}

\* the tasks an undo can bring back: those of the board before the last action
Restorable ==
    IF dispatched = <<>> THEN {}
    ELSE LET before == dispatched[Len(dispatched)].before.tasks
         IN  {before[i] : i \in 1..Len(before)}

Indexes == {Finite(-1), Finite(0), Finite(1), Finite(2), Finite(7), NotFinite}

Add ==
    /\ dispatches < MaxDispatches
    /\ \E title \in Titles \cup BlankTitles : Dispatch(addAction(title))
    /\ UNCHANGED <<store, stt, localStorage>>

LocalSetStatus ==
    /\ dispatches < MaxDispatches
    /\ \E id \in LocalIds, status \in TaskStatus : Dispatch(setStatusAction(id, status))
    /\ UNCHANGED <<store, stt, localStorage>>

LocalCycleStatus ==
    /\ dispatches < MaxDispatches
    /\ \E id \in LocalIds : Dispatch(cycleStatusAction(id))
    /\ UNCHANGED <<store, stt, localStorage>>

LocalRemove ==
    /\ dispatches < MaxDispatches
    /\ \E id \in LocalIds : Dispatch(removeTask(id))
    /\ UNCHANGED <<store, stt, localStorage>>

Restore ==
    /\ dispatches < MaxDispatches
    /\ \E task \in Restorable, index \in Indexes : Dispatch(restoreTask(task, index))
    /\ UNCHANGED <<store, stt, localStorage>>

SetFilter ==
    /\ dispatches < MaxDispatches
    /\ \E filter \in {"all", "active", "completed"} : Dispatch(setFilter(filter))
    /\ UNCHANGED <<store, stt, localStorage>>

LocalReorder ==
    /\ dispatches < MaxDispatches
    /\ \E orderedIds \in OrderedIds : Dispatch(reorderTasks(orderedIds))
    /\ UNCHANGED <<store, stt, localStorage>>

LocalUpdateDescription ==
    /\ dispatches < MaxDispatches
    /\ \E id \in LocalIds, description \in {<<>>, <<"d">>} :
          Dispatch(updateDescriptionAction(id, description))
    /\ UNCHANGED <<store, stt, localStorage>>

ReducerNext ==
    \/ Add
    \/ LocalSetStatus
    \/ LocalCycleStatus
    \/ LocalRemove
    \/ Restore
    \/ SetFilter
    \/ LocalReorder
    \/ LocalUpdateDescription

ReducerSpec == ReducerInit /\ [][ReducerNext]_vars

\* undo: tasks are added, removed and brought back
UndoAdd ==
    /\ dispatches < MaxUndoOps
    /\ \E title \in Titles : Dispatch(addAction(title))
    /\ UNCHANGED <<store, stt, localStorage>>

UndoRemove ==
    /\ dispatches < MaxUndoOps
    /\ \E id \in LocalIds : Dispatch(removeTask(id))
    /\ UNCHANGED <<store, stt, localStorage>>

\* the undo of a removal: a task the last action removed goes back to the
\* index it had
UndoRestore ==
    /\ dispatches < MaxUndoOps
    /\ dispatched # <<>>
    /\ LET last == dispatched[Len(dispatched)]
       IN  /\ last.action.type = "remove"
           /\ \E i \in 1..Len(last.before.tasks) :
                 /\ last.before.tasks[i].id = last.action.id
                 /\ Dispatch(restoreTask(last.before.tasks[i], Finite(i - 1)))
    /\ UNCHANGED <<store, stt, localStorage>>

UndoNext ==
    \/ UndoAdd
    \/ UndoRemove
    \/ UndoRestore

UndoSpec == ReducerInit /\ [][UndoNext]_vars

(***************************************************************************)
(* The storage adapter (src/storage/localStorage.ts).  The stored item is  *)
(* the text JSON.stringify wrote or anything else found under the key: it  *)
(* parses or not, its `tasks` is an array or not, and each entry of the    *)
(* array is the fields of a task together with the set `bad` of the fields *)
(* that are missing or of another type than Task gives them ("object" when *)
(* the entry is no object at all) and the legacy flag `done`.              *)
(***************************************************************************)
stringifyTask(task) == [task |-> task, bad |-> {}, done |-> "absent"]

\* JSON.stringify(state)
stringify(st) ==
    [json |-> TRUE, array |-> TRUE, tasks |-> mapTasks(st.tasks, stringifyTask),
     filter |-> st.filter]

\* normalizeTaskStatus(value, legacyDone) of the adapter; {} is null
storedTaskStatus(raw) ==
    IF "status" \notin raw.bad /\ raw.task.status \in {"backlog", "in_progress", "done"}
    THEN {raw.task.status}
    ELSE IF "status" \notin raw.bad /\ raw.task.status = "active" THEN {"backlog"}
    ELSE IF raw.done = "true" THEN {"done"}
    ELSE IF raw.done = "false" THEN {"backlog"}
    ELSE {}

normalizeFilter(value) ==
    IF value \in {"all", "active", "completed"} THEN value
    ELSE IF value = "done" THEN "completed"
    ELSE "all"

\* {} is null
normalizeTask(raw, now) ==
    IF "object" \in raw.bad THEN {}
    ELSE IF "id" \in raw.bad \/ "title" \in raw.bad THEN {}
    ELSE IF storedTaskStatus(raw) = {} THEN {}
    ELSE LET createdAt == IF "createdAt" \notin raw.bad THEN raw.task.createdAt ELSE now
             updatedAt == IF "updatedAt" \notin raw.bad THEN raw.task.updatedAt
                          ELSE createdAt
             description == IF "description" \notin raw.bad THEN raw.task.description
                            ELSE <<>>
         IN  {LocalTask(raw.task.id, raw.task.title, description,
                        The(storedTaskStatus(raw)), createdAt, updatedAt)}

\* a wrong loadState: entries that cannot be normalized are left out
loadStateSkipsBroken(item, now) ==
    IF item = {} THEN {}
    ELSE LET parsed == The(item)
             good(raw) == normalizeTask(raw, now) # {}
             kept == SelectSeq(parsed.tasks, good)
         IN  IF ~parsed.json \/ ~parsed.array THEN {}
             ELSE {[tasks |-> [i \in 1..Len(kept) |-> The(normalizeTask(kept[i], now))],
                    filter |-> normalizeFilter(parsed.filter)]}

\* {} is null; item is what getItem returns, {} when there is none
loadState(item, now) ==
    IF item = {} THEN {}
    ELSE LET parsed == The(item)
         IN  IF ~parsed.json \/ ~parsed.array THEN {}
             ELSE IF \E i \in 1..Len(parsed.tasks) : normalizeTask(parsed.tasks[i], now) = {}
             THEN {}
             ELSE {[tasks |-> [i \in 1..Len(parsed.tasks) |->
                                  The(normalizeTask(parsed.tasks[i], now))],
                    filter |-> normalizeFilter(parsed.filter)]}

rehydrate(loaded, item) == [type |-> "rehydrate", loaded |-> loaded, item |-> item]

(***************************************************************************)
(* The board is changed, saved, the stored item is damaged or replaced by  *)
(* one an older version wrote, and the board is loaded again.              *)
(***************************************************************************)
StorageAdd ==
    /\ dispatches < MaxStorageOps
    /\ \E title \in Titles : Dispatch(addAction(title))
    /\ UNCHANGED <<store, stt, localStorage>>

\* saveState(state)
SaveState ==
    /\ localStorage # {stringify(todoState)}
    /\ localStorage' = {stringify(todoState)}
    /\ UNCHANGED <<store, clock, stt, todoState, dispatched>>

\* something else than saveState changes the item saveState wrote: the item
\* is cleared or damaged, or is one an older version of the adapter wrote
Tamper ==
    /\ localStorage = {stringify(todoState)}
    /\ LET item == The(localStorage)
           first == item.tasks[1]
           entry(raw) == [item EXCEPT !.tasks[1] = raw]
       IN  \/ localStorage' = {}
           \/ item.json /\ localStorage' = {[item EXCEPT !.json = FALSE]}
           \/ item.array /\ localStorage' = {[item EXCEPT !.array = FALSE]}
           \/ item.filter = "all" /\ localStorage' = {[item EXCEPT !.filter = "done"]}
           \/ /\ item.tasks # <<>>
              /\ first.bad = {} /\ first.done = "absent"
              /\ \/ localStorage' = {entry([first EXCEPT !.bad = {"object"}])}
                 \/ localStorage' = {entry([first EXCEPT !.bad = {"id"}])}
                 \/ localStorage' = {entry([first EXCEPT !.bad = {"status"}])}
                 \/ localStorage' = {entry([first EXCEPT !.bad = {"status"},
                                                         !.done = "true"])}
                 \/ localStorage' = {entry([first EXCEPT !.bad = {"createdAt",
                                                                  "description"}])}
                 \/ localStorage' = {entry([first EXCEPT !.task.status = "active"])}
    /\ UNCHANGED <<store, clock, stt, todoState, dispatched>>

\* loadState() at the start of the application, and rehydrate if it gave a State
LoadState ==
    /\ dispatches < MaxStorageOps
    /\ \E now \in DateNow :
          LET loaded == loadState(localStorage, now)
              action == rehydrate(loaded, localStorage)
          IN  /\ todoState' = IF loaded = {} THEN todoState
                              ELSE reducer(todoState, action, now)
              /\ dispatched' = Append(dispatched,
                                      [action |-> action, before |-> todoState])
              /\ clock' = now
    /\ UNCHANGED <<store, stt, localStorage>>

StorageNext ==
    \/ StorageAdd
    \/ SaveState
    \/ Tamper
    \/ LoadState

StorageSpec == ReducerInit /\ [][StorageNext]_vars

(***************************************************************************)
(* The backend and the local board given the same calls: each mutation of  *)
(* the backend is followed by the same action on the reducer.  The k-th    *)
(* task the backend inserted corresponds to the k-th task the reducer      *)
(* added.                                                                  *)
(***************************************************************************)
LockstepInit == ReducerInit /\ todoState = EmptyState

InStep == dispatches = ops

\* the State the j-th action left
StateAfter(j) == IF j = Len(dispatched) THEN todoState ELSE dispatched[j + 1].before

Added ==
    {j \in 1..Len(dispatched) :
        /\ dispatched[j].action.type = "add"
        /\ StateAfter(j) # dispatched[j].before}

\* the id the reducer gave the task the backend knows as id
localIdOf(id) ==
    IF \E j \in Added : Cardinality({i \in Added : i <= j}) = id
    THEN LET j == CHOOSE j \in Added : Cardinality({i \in Added : i <= j}) = id
         IN  StateAfter(j).tasks[1].id
    ELSE UnknownId

BothCreate ==
    /\ InStep /\ ops < MaxLockstepOps
    /\ \E title \in Titles \cup BlankTitles, now \in DateNow :
          create(title, {}, {}, {}, {}, now)

BothSetStatus ==
    /\ InStep /\ ops < MaxLockstepOps
    /\ \E id \in TaskIdArgs, status \in TaskStatus, now \in DateNow :
          setStatus(id, status, {}, now)

BothCycleStatus ==
    /\ InStep /\ ops < MaxLockstepOps
    /\ \E id \in TaskIdArgs, now \in DateNow : cycleStatus(id, {}, now)

BothRemove ==
    /\ InStep /\ ops < MaxLockstepOps
    /\ \E id \in TaskIdArgs : remove(id)

\* the reducer is given the call the backend was given last
Replay ==
    /\ dispatches < ops
    /\ Dispatch(CASE call.op = "create" -> addAction(call.title)
                  [] call.op = "setStatus" ->
                        setStatusAction(localIdOf(call.id), call.status)
                  [] call.op = "cycleStatus" -> cycleStatusAction(localIdOf(call.id))
                  [] call.op = "remove" -> removeTask(localIdOf(call.id)))
    /\ UNCHANGED <<store, stt, localStorage>>

LockstepNext ==
    \/ BothCreate
    \/ BothSetStatus
    \/ BothCycleStatus
    \/ BothRemove
    \/ Replay

LockstepSpec == LockstepInit /\ [][LockstepNext]_vars

(***************************************************************************)
(* Vocabulary of the properties.                                           *)
(***************************************************************************)
Unchanged ==
    /\ tasks = pre.tasks
    /\ messages = pre.messages
    /\ task_events = pre.task_events
    /\ app_state = pre.app_state

\* the events the last mutation appended (none if it replaced the table)
IsPrefix(s, t) == Len(s) <= Len(t) /\ SubSeq(t, 1, Len(s)) = s

Appended == Len(task_events) - Len(pre.task_events)

LastEvent == task_events[Len(task_events)]

\* the ids a reorder call lists, in any column
ListedIn(columns, c) == {columns[c].orderedIds[i] : i \in 1..Len(columns[c].orderedIds)}

Listed(columns) == UNION {ListedIn(columns, c) : c \in 1..Len(columns)}

\* the number of times a reorder call lists an id
Occurrences(columns, id) ==
    Cardinality({p \in (1..Len(columns)) \X (1..3) :
                    /\ p[2] <= Len(columns[p[1]].orderedIds)
                    /\ columns[p[1]].orderedIds[p[2]] = id})

\* the orders of a column are pairwise distinct and exactly 0 .. n-1
Contiguous(tbl, status) ==
    LET col == byStatus(tbl, status)
    IN  /\ \A i, j \in col : i # j => tbl[i].order # tbl[j].order
        /\ {tbl[i].order : i \in col} = 0..(Cardinality(col) - 1)

ReorderReturned == call.op = "reorder" /\ ret = Null

(***************************************************************************)
(* C1 as stated: after a reorder call, the order values of every column    *)
(* the call supplied are pairwise distinct and exactly 0 .. n-1.           *)
(***************************************************************************)
C1_AnyReorderContiguous ==
    ReorderReturned =>
        \A c \in 1..Len(call.columns) :
            call.columns[c].orderedIds # <<>> =>
                Contiguous(tasks, normalizeLegacyStatus({call.columns[c].status}))

(***************************************************************************)
(* C1 amended: after a reorder call that lists no id twice, the order      *)
(* values of a supplied column are pairwise distinct and exactly 0 .. n-1  *)
(* provided every task that now has the column's status is listed in it.   *)
(***************************************************************************)
FullyListed(c) ==
    /\ \A id \in Listed(call.columns) : Occurrences(call.columns, id) = 1
    /\ byStatus(tasks, normalizeLegacyStatus({call.columns[c].status}))
          \subseteq ListedIn(call.columns, c)

C1_FullyListedContiguous ==
    ReorderReturned =>
        \A c \in 1..Len(call.columns) :
            FullyListed(c) =>
                Contiguous(tasks, normalizeLegacyStatus({call.columns[c].status}))

C1_Witness ==
    /\ ReorderReturned
    /\ \E c \in 1..Len(call.columns) :
          /\ FullyListed(c)
          /\ Len(call.columns[c].orderedIds) = 2
          /\ tasks # pre.tasks

(***************************************************************************)
(* C2 as stated: after a reorder call, every listed task has the order of  *)
(* its index in the column's list and the column's normalized status, and  *)
(* every other task keeps status and order.                                *)
(***************************************************************************)
C2_ListedAtIndex ==
    ReorderReturned =>
        /\ \A c \in 1..Len(call.columns) :
              \A i \in 1..Len(call.columns[c].orderedIds) :
                 LET id == call.columns[c].orderedIds[i]
                 IN  /\ tasks[id].order = i - 1
                     /\ tasks[id].status = normalizeLegacyStatus({call.columns[c].status})
        /\ \A id \in DOMAIN tasks \ Listed(call.columns) :
              /\ tasks[id].status = pre.tasks[id].status
              /\ tasks[id].order = pre.tasks[id].order

(***************************************************************************)
(* C2 amended: a reorder call that lists an id of no existing task throws  *)
(* and changes nothing; any other reorder call gives every listed task the *)
(* index of its last occurrence in the call as order and the normalized    *)
(* status of the column of that occurrence, whatever column the task was   *)
(* in before, and leaves status and order of every other task alone.       *)
(***************************************************************************)
LastColumn(columns, id) ==
    -MinOf({-c : c \in {d \in 1..Len(columns) : id \in ListedIn(columns, d)}})

LastIndex(ids, id) == -MinOf({-i : i \in {j \in 1..Len(ids) : ids[j] = id}})

C2_ListedAtLastOccurrence ==
    call.op = "reorder" =>
        IF Listed(call.columns) \subseteq DOMAIN pre.tasks
        THEN /\ ret = Null
             /\ DOMAIN tasks = DOMAIN pre.tasks
             /\ \A id \in Listed(call.columns) :
                   LET column == call.columns[LastColumn(call.columns, id)]
                   IN  /\ tasks[id].order = LastIndex(column.orderedIds, id) - 1
                       /\ \/ column.status \in {"backlog", "active"}
                             /\ tasks[id].status = "backlog"
                          \/ column.status \in {"in_progress", "in-progress"}
                             /\ tasks[id].status = "in_progress"
                          \/ column.status \in {"done", "completed"}
                             /\ tasks[id].status = "done"
             /\ \A id \in DOMAIN tasks \ Listed(call.columns) :
                   /\ tasks[id].status = pre.tasks[id].status
                   /\ tasks[id].order = pre.tasks[id].order
        ELSE ret = Threw /\ Unchanged

C2_Witness ==
    /\ ReorderReturned
    /\ Len(call.columns) = 1
    /\ call.columns[1].status = "done"
    /\ Len(call.columns[1].orderedIds) = 2
    /\ LET B == call.columns[1].orderedIds[1]
           A == call.columns[1].orderedIds[2]
       IN  /\ A # B
           /\ pre.tasks[A].status # "done"
           /\ tasks[B].order = 0 /\ tasks[B].status = "done"
           /\ tasks[A].order = 1 /\ tasks[A].status = "done"

(***************************************************************************)
(* C3 as stated: no create, setStatus, cycleStatus, updateDescription,     *)
(* reorder, remove or send changes the tasks or messages table and leaves  *)
(* the task_events table unchanged.                                        *)
(***************************************************************************)
StoreOps == {"create", "setStatus", "cycleStatus", "updateDescription", "reorder",
             "remove", "send"}

RecordingOps == {"create", "setStatus", "cycleStatus", "updateDescription", "send"}

Blank(s) == \A k \in 1..Len(s) : IsSpace(s[k])

\* t is s without its leading and trailing white space
Trimmed(t, s) ==
    \E i \in 1..Len(s) : \E j \in i..Len(s) :
        /\ t = SubSeq(s, i, j)
        /\ ~IsSpace(s[i]) /\ ~IsSpace(s[j])
        /\ \A k \in 1..Len(s) : (k < i \/ k > j) => IsSpace(s[k])

C4_CreateValidatesTitle ==
    call.op = "create" =>
        IF Blank(call.title)
        THEN ret = Null /\ Unchanged
        ELSE /\ ret.kind = "id"
             /\ ret.id \notin DOMAIN pre.tasks
             /\ DOMAIN tasks = DOMAIN pre.tasks \cup {ret.id}
             /\ \A id \in DOMAIN pre.tasks : tasks[id] = pre.tasks[id]
             /\ Trimmed(tasks[ret.id].title, call.title)
             /\ Appended = 1
             /\ IsPrefix(pre.task_events, task_events)
             /\ LastEvent.type = "task_created"
             /\ LastEvent.taskId = ret.id
             /\ messages = pre.messages
             /\ app_state = pre.app_state

C4_Witness ==
    /\ call.op = "create"
    /\ call.title = <<" ", "b", " ">>
    /\ ret.kind = "id"
    /\ tasks[ret.id].title = <<"b">>

(***************************************************************************)
(* C5: create without an explicit order gives the new task the minimum     *)
(* order of the tasks already stored with the normalized status, minus 1,  *)
(* or 0 if there is none: strictly smaller than every other order in its   *)
(* column.                                                                 *)
(***************************************************************************)
C5_CreatePrepends ==
    (call.op = "create" /\ ret.kind = "id" /\ call.order = {}) =>
        LET new == tasks[ret.id]
            column == {id \in DOMAIN pre.tasks : pre.tasks[id].status = new.status}
        IN  /\ new.status = normalizeLegacyStatus(call.status)
            /\ column = {} => new.order = 0
            /\ column # {} =>
                  /\ \E id \in column : new.order = pre.tasks[id].order - 1
                  /\ \A id \in column : new.order < tasks[id].order

C5_Witness ==
    /\ call.op = "create" /\ ret.kind = "id" /\ call.order = {}
    /\ \E id \in DOMAIN pre.tasks :
          /\ pre.tasks[id].status = tasks[ret.id].status
          /\ tasks[ret.id].order < pre.tasks[id].order

(***************************************************************************)
(* C6: setStatus on a task whose stored status is canonical and equal to   *)
(* the normalized target changes neither the task nor the event log and    *)
(* returns the current status.                                             *)
(***************************************************************************)
C6_SetSameStatusNoOp ==
    (/\ call.op = "setStatus"
     /\ call.id \in DOMAIN pre.tasks
     /\ pre.tasks[call.id].status \in TaskStatus
     /\ pre.tasks[call.id].status = normalizeLegacyStatus({call.status}))
        => /\ Unchanged
           /\ ret = Status(pre.tasks[call.id].status)

C6_Witness ==
    /\ call.op = "setStatus"
    /\ call.id \in DOMAIN pre.tasks
    /\ call.status = "in-progress"
    /\ pre.tasks[call.id].status = "in_progress"
    /\ clock > pre.tasks[call.id].updatedAt
    /\ ret = Status("in_progress")

(***************************************************************************)
(* C7: every cycleStatus call on an existing task moves its status one     *)
(* step along backlog -> in_progress -> done -> backlog, so no status is   *)
(* terminal, and three consecutive calls on a backlog task visit           *)
(* in_progress, then done, and return it to backlog.                       *)
(***************************************************************************)
\* the last three calls are cycleStatus calls on the same existing task
ThreeCycles ==
    /\ Len(trace) >= 3
    /\ \A k \in (Len(trace) - 2)..Len(trace) :
          /\ trace[k].call.op = "cycleStatus"
          /\ trace[k].call.id = call.id
          /\ trace[k].ret.kind = "status"

EventBack(k) == task_events[Len(task_events) - k]

C7_CycleStep ==
    /\ (call.op = "cycleStatus" /\ call.id \in DOMAIN pre.tasks) =>
          LET from == pre.tasks[call.id].status
              to == tasks[call.id].status
          IN  /\ from \in {"backlog", "active"} => to = "in_progress"
              /\ from \in {"in_progress", "in-progress"} => to = "done"
              /\ from \in {"done", "completed"} => to = "backlog"
              /\ to # from
              /\ ret = Status(to)
    /\ (ThreeCycles /\ EventBack(2).payload.from = {"backlog"}) =>
          /\ EventBack(2).payload.to = {"in_progress"}
          /\ EventBack(1).payload = [NoPayload EXCEPT !.from = {"in_progress"},
                                                      !.to = {"done"}]
          /\ EventBack(0).payload = [NoPayload EXCEPT !.from = {"done"},
                                                      !.to = {"backlog"}]
          /\ tasks[call.id].status = "backlog"

C7_Witness ==
    /\ ThreeCycles
    /\ EventBack(2).payload.from = {"backlog"}
    /\ EventBack(2).taskId = call.id
    /\ EventBack(0).taskId = call.id
    /\ tasks[call.id].status = "backlog"

(***************************************************************************)
(* C8 as stated: setStatus, cycleStatus, updateDescription, remove and     *)
(* reorder applied to the id of a deleted task return null and leave the   *)
(* tables unchanged; none of them throws.                                  *)
(***************************************************************************)
C8_DeletedIdIsSilentNoOp ==
    (\/ /\ call.op \in {"setStatus", "cycleStatus", "updateDescription", "remove"}
        /\ call.id \notin DOMAIN pre.tasks
     \/ /\ call.op = "reorder"
        /\ ~(Listed(call.columns) \subseteq DOMAIN pre.tasks))
        => (ret = Null /\ Unchanged)

(***************************************************************************)
(* C9 as stated: after two seedDemoData calls in a row, from any database  *)
(* state, the numbers of tasks, messages and events are those after the    *)
(* first call, and the flag is true after each call.                       *)
(***************************************************************************)
SeededTwice ==
    /\ Len(trace) >= 2
    /\ trace[Len(trace)].call.op = "seedDemoData"
    /\ trace[Len(trace) - 1].call.op = "seedDemoData"

\* the sizes before the first, and after the first (before the second), of two calls
BeforeFirst == trace[Len(trace) - 1].before

AfterFirst == trace[Len(trace)].before

SameCounts ==
    /\ Sizes.tasks = AfterFirst.tasks
    /\ Sizes.messages = AfterFirst.messages
    /\ Sizes.task_events = AfterFirst.task_events
    /\ AfterFirst.seeded
    /\ Sizes.seeded

C9_SeedTwiceSameCounts == SeededTwice => SameCounts

(***************************************************************************)
(* C9 amended: two seedDemoData calls in a row that start from an empty    *)
(* database, or from one whose demo_seeded flag is true, leave the same    *)
(* numbers of tasks, messages and events after the second call as after    *)
(* the first, and the flag true after each.                                *)
(***************************************************************************)
C9_SeedTwiceFromEmptyOrSeeded ==
    (/\ SeededTwice
     /\ \/ BeforeFirst.seeded
        \/ BeforeFirst.tasks = 0 /\ BeforeFirst.messages = 0
              /\ BeforeFirst.task_events = 0)
        => SameCounts

C9_Witness ==
    /\ SeededTwice
    /\ BeforeFirst.seeded
    /\ BeforeFirst.tasks > 0
    /\ trace[Len(trace)].call.language # trace[Len(trace) - 1].call.language
    /\ SameCounts

(***************************************************************************)
(* C10: seedDemoData called while the flag is true deletes every task,     *)
(* message and event there was, and leaves exactly the seeded records: 7   *)
(* tasks, 4 messages, 20 events (7 task_created, 5 task_status_changed, 4  *)
(* task_description_updated, 4 message_sent) and one app_state record.     *)
(***************************************************************************)
CountEvents(type) ==
    Cardinality({i \in 1..Len(task_events) : task_events[i].type = type})

SeededBefore ==
    \E i \in 1..Len(pre.app_state) :
        pre.app_state[i].key = "demo_seeded" /\ pre.app_state[i].value

C10_ReseedReplacesEverything ==
    (call.op = "seedDemoData" /\ SeededBefore) =>
        /\ DOMAIN tasks \cap DOMAIN pre.tasks = {}
        /\ \A i \in 1..Len(task_events) : task_events[i].taskId \in DOMAIN tasks
        /\ \A i \in 1..Len(messages) : messages[i].taskId \in DOMAIN tasks
        /\ Cardinality(DOMAIN tasks) = 7
        /\ Len(messages) = 4
        /\ Len(task_events) = 20
        /\ CountEvents("task_created") = 7
        /\ CountEvents("task_status_changed") = 5
        /\ CountEvents("task_description_updated") = 4
        /\ CountEvents("message_sent") = 4
        /\ Len(app_state) = 1
        /\ app_state[1].key = "demo_seeded"
        /\ app_state[1].value

C10_Witness ==
    /\ call.op = "seedDemoData"
    /\ SeededBefore
    /\ Cardinality(DOMAIN pre.tasks) > 7
    /\ pre.messages # <<>>
    /\ Len(pre.task_events) > 20
    /\ Cardinality(DOMAIN tasks) = 7

(***************************************************************************)
(* C11: in every reachable state the actor of every TaskEvent is           *)
(* "demo-user" or "anonymous", whatever actor or author the callers of     *)
(* create, setStatus, cycleStatus, updateDescription, reorder, send and    *)
(* seedDemoData supplied.                                                  *)
(***************************************************************************)
C11_ActorAllowListed ==
    \A i \in 1..Len(task_events) : task_events[i].actor \in {"demo-user", "anonymous"}

\* a caller named Bob is recorded as anonymous, next to an event of demo-user
C11_Witness ==
    /\ call.op \in {"create", "setStatus", "reorder", "send"}
    /\ (IF call.op = "send" THEN trim(call.author) ELSE trim(The(call.actor \cup {<<>>}))) = Bob
    /\ Appended >= 1
    /\ LastEvent.actor = "anonymous"
    /\ \E i \in 1..Len(task_events) : task_events[i].actor = "demo-user"

(***************************************************************************)
(* C12: send with a text or an author that is blank after trimming returns *)
(* null and inserts neither a message nor an event.                        *)
(***************************************************************************)
C12_SendValidates ==
    (call.op = "send" /\ (Blank(call.text) \/ Blank(call.author)))
        => (ret = Null /\ Unchanged)

\* a blank author with a text that is not blank
C12_Witness ==
    /\ call.op = "send"
    /\ Blank(call.author) /\ ~Blank(call.text)
    /\ call.taskId \in DOMAIN tasks
    /\ ret = Null

(***************************************************************************)
(* C13: a successful send stores exactly one message, with the trimmed     *)
(* text and the trimmed author as given (not normalized), and appends      *)
(* exactly one message_sent event with the same taskId and createdAt,      *)
(* whose actor is "demo-user" if the trimmed author is demo-user and       *)
(* "anonymous" otherwise.                                                  *)
(***************************************************************************)
LastMessage == messages[Len(messages)]

C13_SendStoresAndRecords ==
    (call.op = "send" /\ ~Blank(call.text) /\ ~Blank(call.author)) =>
        /\ ret.kind = "message"
        /\ Len(messages) = Len(pre.messages) + 1
        /\ IsPrefix(pre.messages, messages)
        /\ LastMessage.taskId = call.taskId
        /\ Trimmed(LastMessage.text, call.text)
        /\ Trimmed(LastMessage.author, call.author)
        /\ Appended = 1
        /\ IsPrefix(pre.task_events, task_events)
        /\ LastEvent.type = "message_sent"
        /\ LastEvent.taskId = LastMessage.taskId
        /\ LastEvent.createdAt = LastMessage.createdAt
        /\ LastEvent.actor = (IF LastMessage.author = DemoUser THEN "demo-user"
                              ELSE "anonymous")
        /\ tasks = pre.tasks
        /\ app_state = pre.app_state

\* Bob's message is stored under the name Bob and attributed to anonymous
C13_Witness ==
    /\ call.op = "send"
    /\ call.author = Bob
    /\ ret.kind = "message"
    /\ LastMessage.author = Bob
    /\ LastEvent.actor = "anonymous"
    /\ \E i \in 1..Len(task_events) :
          /\ task_events[i].type = "task_created"
          /\ task_events[i].taskId = call.taskId
          /\ task_events[i].actor = "demo-user"

(***************************************************************************)
(* C14 as stated: updateDescription(id, text) followed immediately by      *)
(* updateDescription(id, text) performs exactly one patch in total, and    *)
(* the second call leaves the task and the event log unchanged.            *)
(***************************************************************************)
\* the last two calls are updateDescription calls with the same id and text
DescribedTwice ==
    /\ Len(trace) >= 2
    /\ trace[Len(trace)].call.op = "updateDescription"
    /\ trace[Len(trace) - 1].call.op = "updateDescription"
    /\ trace[Len(trace)].call.id = trace[Len(trace) - 1].call.id
    /\ trace[Len(trace)].call.description = trace[Len(trace) - 1].call.description

\* every patch of updateDescription comes with one event (lines 594-601): the
\* patches of the two calls are the events they appended
PatchesOfTwo == Len(task_events) - trace[Len(trace) - 1].before.task_events

C14_ExactlyOnePatch ==
    DescribedTwice => (PatchesOfTwo = 1 /\ Unchanged)

(***************************************************************************)
(* C14 amended: updateDescription patches the task (description and        *)
(* updatedAt, with one event) exactly when the task exists and its stored  *)
(* description differs from the text; so of two calls in a row with the    *)
(* same id and text the second is a no-op that leaves the task and the     *)
(* event log unchanged, and the two perform at most one patch in total.    *)
(***************************************************************************)
C14_SecondCallNoOp ==
    /\ call.op = "updateDescription" =>
          /\ ret = Null
          /\ IF call.id \in DOMAIN pre.tasks
                /\ pre.tasks[call.id].description # call.description
             THEN /\ tasks = [pre.tasks EXCEPT ![call.id].description = call.description,
                                               ![call.id].updatedAt = clock]
                  /\ Appended = 1
                  /\ IsPrefix(pre.task_events, task_events)
                  /\ LastEvent.type = "task_description_updated"
                  /\ LastEvent.taskId = call.id
                  /\ messages = pre.messages
                  /\ app_state = pre.app_state
             ELSE Unchanged
    /\ DescribedTwice => (PatchesOfTwo <= 1 /\ Unchanged)

\* the first call patched, the second did not
C14_Witness ==
    /\ DescribedTwice
    /\ call.id \in DOMAIN tasks
    /\ PatchesOfTwo = 1
    /\ tasks[call.id].description = call.description
    /\ LastEvent.type = "task_description_updated"
    /\ Unchanged

PlacedByColumns ==
    IF Listed(call.columns) \subseteq DOMAIN pre.tasks
    THEN applyPatches(pre.tasks, reorderPatches(call.columns, 1, <<>>), 1, clock)
    ELSE pre.tasks

C16_PlacementFromColumnsOnly ==
    call.op = "reorder" =>
        /\ DOMAIN tasks = DOMAIN pre.tasks
        /\ \A id \in DOMAIN tasks :
              /\ tasks[id].status = PlacedByColumns[id].status
              /\ tasks[id].order = PlacedByColumns[id].order
        /\ IsPrefix(pre.task_events, task_events)
        /\ messages = pre.messages
        /\ app_state = pre.app_state

\* metadata that contradicts the columns: the event says the task went to
\* backlog, the task is in done
C16_Witness ==
    /\ ReorderReturned
    /\ call.movedTaskId # {}
    /\ call.toStatus = {"backlog"}
    /\ Appended >= 1
    /\ LastEvent.type = "task_status_changed"
    /\ LastEvent.payload.to = {"backlog"}
    /\ tasks[The(call.movedTaskId)].status = "done"
    /\ pre.tasks[The(call.movedTaskId)].status # "done"

(***************************************************************************)
(* C17: mutations are applied one after the other, as whole transactions   *)
(* and without a version check: of two reorder calls computed from the     *)
(* same snapshot the later one overwrites order and status of every task   *)
(* it lists and leaves the earlier one's placement of every other task in  *)
(* place. So the later call decides a whole column only if it lists all    *)
(* the tasks that end in it, and otherwise a column can end with an order  *)
(* sequence that is neither of the two submitted lists (C17_Witness).      *)
(***************************************************************************)
\* the last two calls are reorder calls of two clients with the same snapshot
First == trace[Len(trace) - 1].call

Second == trace[Len(trace)].call

TwoReorders ==
    /\ Len(trace) >= 2
    /\ First.op = "reorder" /\ trace[Len(trace) - 1].ret = Null
    /\ Second.op = "reorder" /\ ret = Null

\* the list a call submits for a status (clients list a status at most once)
SubmittedFor(c, status) ==
    LET cols == {k \in 1..Len(c.columns) :
                    normalizeLegacyStatus({c.columns[k].status}) = status}
    IN  IF cols = {} THEN {} ELSE {c.columns[MinOf(cols)].orderedIds}

PositionIn(ids, id) == MinOf({i \in 1..Len(ids) : ids[i] = id}) - 1

\* the column of the status holds exactly the tasks of ids, in that order
ColumnIs(status, ids) ==
    /\ byStatus(tasks, status) = {ids[i] : i \in 1..Len(ids)}
    /\ \A i \in 1..Len(ids) : tasks[ids[i]].order = i - 1

PlacedBy(c, id) ==
    \E status \in TaskStatus : \E ids \in SubmittedFor(c, status) :
        /\ \E i \in 1..Len(ids) : ids[i] = id
        /\ tasks[id].status = status
        /\ tasks[id].order = PositionIn(ids, id)

C18_NormalizerTotal ==
    call.op = "normalizeLegacyStatus" =>
        /\ ret.kind = "status"
        /\ ret.status \in {"backlog", "in_progress", "done"}
        /\ call.status = {"active"} => ret.status = "backlog"
        /\ call.status = {"completed"} => ret.status = "done"
        /\ call.status = {"in-progress"} => ret.status = "in_progress"
        /\ \A canonical \in {"backlog", "in_progress", "done"} :
              call.status = {canonical} => ret.status = canonical
        /\ (\A known \in {"active", "completed", "in-progress", "backlog", "in_progress",
                          "done"} : call.status # {known})
              => ret.status = "backlog"

\* an unknown string after a legacy spelling
C18_Witness ==
    /\ Len(trace) = 2
    /\ trace[1].call.op = "normalizeLegacyStatus"
    /\ trace[1].call.status = {"in-progress"}
    /\ trace[1].ret = Status("in_progress")
    /\ call.op = "normalizeLegacyStatus"
    /\ call.status = {"archived"}
    /\ ret = Status("backlog")

(***************************************************************************)
(* C19: TaskEvent records are append-only: no operation modifies an        *)
(* existing event, and events are deleted only by a seedDemoData call that *)
(* finds the demo_seeded flag already true.                                *)
(***************************************************************************)
C19_EventsAppendOnly ==
    \/ IsPrefix(pre.task_events, task_events)
    \/ call.op = "seedDemoData" /\ SeededBefore

\* the bulk reset has deleted events, among them one older than the first seeding
C19_Witness ==
    /\ call.op = "seedDemoData"
    /\ SeededBefore
    /\ Len(pre.task_events) > 20
    /\ ~IsPrefix(pre.task_events, task_events)
    /\ \A i \in 1..Len(task_events) : task_events[i] # pre.task_events[1]

(***************************************************************************)
(* C20: every response of the speech-to-text proxy is either 200 with the  *)
(* body {text, task_id} or carries an error field with a status among      *)
(* 400, 405, 502, 504, 500: 405 for a request that is not a POST, 400 for  *)
(* a missing token or a malformed request, 502 for any failure the         *)
(* upstream service reports (upload, status or transcription call), 504    *)
(* for a poll that ran out of time, 500 for an unexpected exception.       *)
(* This is the statement as the specification words it.                    *)
(***************************************************************************)
Answered == stt.pc = "done"

Malformed == {"json", "multipart-no-boundary", "multipart-no-file"}

UpstreamFailed ==
    \/ stt.answer.kind = "error"
    \/ stt.stage = "upload" /\ stt.answer = Ok("")
    \/ stt.stage = "status" /\ stt.status = "failed"

C20_StatusesAsListed ==
    Answered =>
        /\ \/ stt.response = [status |-> 200, body |-> {"text", "task_id"}]
           \/ /\ "error" \in stt.response.body
              /\ stt.response.status \in {400, 405, 502, 504, 500}
        /\ stt.method # "POST" => stt.response.status = 405
        /\ stt.method = "POST" /\ (~stt.token \/ stt.form \in Malformed)
              => stt.response.status = 400
        /\ UpstreamFailed => stt.response.status = 502
        /\ stt.stage = "timeout" => stt.response.status = 504
        /\ stt.method = "POST"
              /\ (stt.answer.kind = "throws" \/ (stt.token /\ stt.form = "broken-stream"))
              => stt.response.status = 500

(***************************************************************************)
(* C20, as the code has it: a response is 200 with the body                *)
(* {text, task_id} exactly when the transcription was fetched; every other *)
(* response carries an error field.  A non-OK response of the upstream     *)
(* service (upload, status or transcription call) is relayed with the      *)
(* status the upstream gave; 502 is the answer to an upload without a      *)
(* task_id and to a task reported "failed"; 405, 400, 504 and 500 are as   *)
(* listed, a rejected fetch being one of the exceptions answered with 500. *)
(***************************************************************************)
C20_UpstreamStatusRelayed ==
    Answered =>
        /\ \/ /\ stt.response = [status |-> 200, body |-> {"text", "task_id"}]
              /\ stt.stage = "transcription" /\ stt.answer.kind = "ok"
           \/ /\ "error" \in stt.response.body
              /\ stt.response.status # 200
              /\ ~(stt.stage = "transcription" /\ stt.answer.kind = "ok")
        /\ stt.method # "POST" => stt.response.status = 405
        /\ stt.method = "POST" /\ (~stt.token \/ stt.form \in Malformed)
              => stt.response.status = 400
        /\ stt.answer.kind = "error" => stt.response.status = stt.answer.code
        /\ stt.stage = "upload" /\ stt.answer = Ok("") => stt.response.status = 502
        /\ stt.stage = "status" /\ stt.answer.kind = "ok" /\ stt.status = "failed"
              => stt.response.status = 502
        /\ stt.stage = "timeout" => stt.response.status = 504
        /\ stt.answer.kind = "throws" => stt.response.status = 500
        /\ stt.method = "POST" /\ stt.token /\ stt.form = "broken-stream"
              => stt.response.status = 500
        /\ stt.response.status \in {200, 400, 405, 502, 504, 500} \cup UpstreamErrors

\* the status call of a task that was uploaded is refused by the upstream
\* service with 401, and the proxy answers 401
C20_Witness ==
    /\ Answered
    /\ stt.stage = "status"
    /\ stt.answer = NotOk(401)
    /\ stt.response = [status |-> 401, body |-> {"error"}]

(***************************************************************************)
(* C21: after a successful upload the polling of the task status always    *)
(* ends.  While the handler polls, no poll has reported "completed" or     *)
(* "failed" and none was answered non-OK; once 60 s have elapsed the only  *)
(* step left is the 504 answer; the transcription is fetched only after a  *)
(* poll reported "completed", "failed" ends in 502 and running out of time *)
(* ends in 504.                                                            *)
(***************************************************************************)
Polling == stt.pc = "poll"

PollingStopsAtOnce ==
    Polling => stt.answer.kind = "ok" /\ stt.status \notin {"completed", "failed"}

PollingOutcomes ==
    /\ stt.pc = "transcription" \/ stt.stage = "transcription"
          => stt.status = "completed"
    /\ Answered /\ stt.stage = "status" /\ stt.answer.kind = "ok"
          => stt.status = "failed" /\ stt.response.status = 502
    /\ Answered /\ stt.stage = "timeout"
          => /\ stt.response.status = 504
             /\ stt.elapsed >= TimeoutMs
             /\ stt.status \notin {"completed", "failed"}

TimeUpEndsPolling ==
    Polling /\ stt.elapsed >= TimeoutMs /\ stt' # stt
        => stt'.pc = "done" /\ stt'.stage = "timeout"

C21_PollingTerminates ==
    /\ [](PollingStopsAtOnce /\ PollingOutcomes)
    /\ [][TimeUpEndsPolling]_vars
    /\ (Polling ~> ~Polling)

\* the handler polled until the time was up and answered 504
C21_Witness ==
    /\ Answered
    /\ stt.stage = "timeout"
    /\ stt.elapsed >= TimeoutMs
    /\ stt.response.status = 504

(***************************************************************************)
(* Vocabulary of the properties of the reducer.                            *)
(***************************************************************************)
LastDispatch == dispatched[Len(dispatched)]

Dispatched(type) == dispatched # <<>> /\ LastDispatch.action.type = type

Distinct(ts) == \A i, j \in 1..Len(ts) : ts[i].id = ts[j].id => i = j

\* the last action was a restore and put its task at the clamped index,
\* the other tasks keeping their order
RestoreClamps ==
    Dispatched("restore") =>
        LET before == LastDispatch.before.tasks
            index == LastDispatch.action.index
            at == IF ~index.finite \/ index.value < 0 THEN 0
                  ELSE IF index.value > Len(before) THEN Len(before)
                  ELSE index.value
        IN  /\ Len(todoState.tasks) = Len(before) + 1
            /\ todoState.tasks[at + 1] = LastDispatch.action.task
            /\ \A i \in 1..Len(before) :
                  todoState.tasks[IF i <= at THEN i ELSE i + 1] = before[i]

\* remove(id) and then the restore of a removed task at the index it had
RemovedThenRestored ==
    /\ Len(dispatched) >= 2
    /\ Dispatched("restore")
    /\ dispatched[Len(dispatched) - 1].action.type = "remove"

(***************************************************************************)
(* C23: restore inserts the task at index min(max(0, index), length)       *)
(* (index 0 when the index is not finite) and keeps the other tasks in     *)
(* their order; remove(id) followed by restore(task, its original index)   *)
(* yields the task list as it was before the removal.                      *)
(***************************************************************************)
C23_RemoveRestoreRoundTrip ==
    /\ RestoreClamps
    /\ RemovedThenRestored
          => todoState.tasks = dispatched[Len(dispatched) - 1].before.tasks

\* the ids of a list without the repetitions, each at its first place
RECURSIVE Dedup(_)
Dedup(ids) ==
    IF ids = <<>> THEN <<>>
    ELSE LET front == Dedup(SubSeq(ids, 1, Len(ids) - 1))
             id == ids[Len(ids)]
         IN  IF \E i \in 1..Len(front) : front[i] = id THEN front
             ELSE Append(front, id)

Count(ts, task) == Cardinality({i \in 1..Len(ts) : ts[i] = task})

IsPermutation(ts, us) ==
    /\ Len(ts) = Len(us)
    /\ \A i \in 1..Len(ts) : Count(ts, ts[i]) = Count(us, ts[i])

(***************************************************************************)
(* C24: for any orderedIds the reorder action yields a permutation of the  *)
(* previous task list (no task lost, none duplicated): the tasks whose ids *)
(* are listed come first, in the listed order, the tasks not listed follow *)
(* in their previous order; ids matching no task are ignored, and an empty *)
(* list or one matching no task leaves the state as it was.                *)
(***************************************************************************)
C24_ReorderPermutes ==
    Dispatched("reorder") =>
        LET before == LastDispatch.before.tasks
            after == todoState.tasks
            known(id) == id \in Ids(before)
            found == Dedup(SelectSeq(LastDispatch.action.orderedIds, known))
            listed(task) == \E i \in 1..Len(found) : found[i] = task.id
            unlisted(task) == ~listed(task)
        IN  /\ IsPermutation(before, after)
            /\ \A i \in 1..Len(found) : i <= Len(after) /\ after[i].id = found[i]
            /\ SelectSeq(after, unlisted) = SelectSeq(before, unlisted)
            /\ found = <<>> => todoState = LastDispatch.before

(***************************************************************************)
(* C30: task ids stay pairwise distinct: from a state whose task ids are   *)
(* pairwise distinct, add, setStatus, cycleStatus, remove, restore of a    *)
(* task that is absent, reorder and updateDescription lead to a state      *)
(* whose task ids are pairwise distinct.                                   *)
(***************************************************************************)
C30_IdsStayDistinct ==
    /\ dispatched # <<>>
    /\ Distinct(LastDispatch.before.tasks)
    /\ Dispatched("restore")
          => LastDispatch.action.task.id \notin Ids(LastDispatch.before.tasks)
    => Distinct(todoState.tasks)

\* the last call of the backend was a cycleStatus that changed a status
CycledStore == call.op = "cycleStatus" /\ ret.kind = "status"

\* the last action of the reducer was a cycleStatus that changed a status
CycledLocal == Dispatched("cycleStatus") /\ todoState # LastDispatch.before

CycledLocalTasks ==
    {i \in 1..Len(todoState.tasks) : todoState.tasks[i].id = LastDispatch.action.id}

(***************************************************************************)
(* C26: each cycleStatus call that changes a task's status sets the task's *)
(* updatedAt to a value strictly greater than its previous updatedAt.      *)
(* This is the statement as the specification words it.                    *)
(***************************************************************************)
C26_UpdatedAtStrictlyGrows ==
    /\ CycledStore => tasks[call.id].updatedAt > pre.tasks[call.id].updatedAt
    /\ CycledLocal =>
          \A i \in CycledLocalTasks :
             todoState.tasks[i].updatedAt > LastDispatch.before.tasks[i].updatedAt

(***************************************************************************)
(* C26, as the code has it: each cycleStatus call that changes a task's    *)
(* status sets the task's updatedAt to the time the call read from the     *)
(* clock (the time of the event it records), which is not smaller than the *)
(* previous updatedAt while the clock does not run backwards, and equal to *)
(* it when both calls fall into the same millisecond.                      *)
(***************************************************************************)
C26_UpdatedAtIsCallTime ==
    /\ CycledStore =>
          /\ tasks[call.id].updatedAt = LastEvent.createdAt
          /\ tasks[call.id].updatedAt >= pre.tasks[call.id].updatedAt
          /\ tasks[call.id].updatedAt <= clock
    /\ CycledLocal =>
          \A i \in CycledLocalTasks :
             /\ todoState.tasks[i].updatedAt >= LastDispatch.before.tasks[i].updatedAt
             /\ todoState.tasks[i].updatedAt <= clock

\* two status changes of one task in the same millisecond: the status moved,
\* updatedAt did not
C26_Witness ==
    /\ CycledStore
    /\ tasks[call.id].status # pre.tasks[call.id].status
    /\ tasks[call.id].updatedAt = pre.tasks[call.id].updatedAt
    /\ LastEvent.createdAt = tasks[call.id].updatedAt

\* the last call was a setStatus of a stored task to another column
Retargeted ==
    /\ call.op = "setStatus"
    /\ call.id \in DOMAIN pre.tasks
    /\ normalizeLegacyStatus({pre.tasks[call.id].status})
          # normalizeLegacyStatus({call.status})

(***************************************************************************)
(* C27: setStatus to a status other than the task's normalized current     *)
(* status leaves the task with the target status and an order strictly     *)
(* smaller than that of every other task stored in the target column,      *)
(* appends exactly one task_status_changed event with from = the previous  *)
(* normalized status and to = the target, and returns the target.          *)
(***************************************************************************)
C27_SetStatusPrepends ==
    Retargeted =>
        LET target == normalizeLegacyStatus({call.status})
            from == normalizeLegacyStatus({pre.tasks[call.id].status})
        IN  /\ tasks[call.id].status = target
            /\ \A other \in DOMAIN tasks \ {call.id} :
                  tasks[other].status = target
                     => tasks[call.id].order < tasks[other].order
            /\ Len(task_events) = Len(pre.task_events) + 1
            /\ IsPrefix(pre.task_events, task_events)
            /\ LastEvent.type = "task_status_changed"
            /\ LastEvent.taskId = call.id
            /\ LastEvent.payload = [NoPayload EXCEPT !.from = {from}, !.to = {target}]
            /\ ret = Status(target)

\* a task moved to a column that held another task, and ranks before it
C27_Witness ==
    /\ Retargeted
    /\ \E other \in DOMAIN tasks \ {call.id} :
          /\ tasks[other].status = tasks[call.id].status
          /\ tasks[call.id].order = tasks[other].order - 1

\* the events the last call appended
NewEvents == SubSeq(task_events, Len(pre.task_events) + 1, Len(task_events))

NewOfType(type) == Cardinality({i \in 1..Len(NewEvents) : NewEvents[i].type = type})

IndexesDiffer == call.fromIndex # {} /\ call.toIndex # {} /\ call.fromIndex # call.toIndex

StatusesDiffer ==
    /\ call.fromStatus # {} /\ call.toStatus # {}
    /\ normalizeLegacyStatus(call.fromStatus) # normalizeLegacyStatus(call.toStatus)

(***************************************************************************)
(* C28: a reorder call appends a task_reordered event exactly when         *)
(* movedTaskId, fromIndex and toIndex are given with fromIndex different   *)
(* from toIndex, and a task_status_changed event exactly when fromStatus   *)
(* and toStatus are given and normalize to different values; it appends no *)
(* other event.  This is the statement as the specification words it,     *)
(* taken for the calls that return.                                        *)
(***************************************************************************)
C28_EventsByMetadata ==
    call.op = "reorder" /\ ret # Threw =>
        /\ IsPrefix(pre.task_events, task_events)
        /\ NewOfType("task_reordered")
              = (IF call.movedTaskId # {} /\ IndexesDiffer THEN 1 ELSE 0)
        /\ NewOfType("task_status_changed") = (IF StatusesDiffer THEN 1 ELSE 0)
        /\ Len(NewEvents) = NewOfType("task_reordered") + NewOfType("task_status_changed")
        /\ Len(NewEvents) <= 2

(***************************************************************************)
(* C28, as the code has it: a reorder call that lists the id of no task    *)
(* throws and appends nothing.  Any other reorder call appends a           *)
(* task_reordered event (payload fromIndex, toIndex) exactly when          *)
(* movedTaskId, fromIndex and toIndex are given with differing indexes,    *)
(* then a task_status_changed event (payload from, to) exactly when        *)
(* movedTaskId, fromStatus and toStatus are given and the statuses         *)
(* normalize to different values; both events name the moved task; it      *)
(* appends no other event.                                                 *)
(***************************************************************************)
C28_EventsNeedMovedTask ==
    call.op = "reorder" =>
        /\ IsPrefix(pre.task_events, task_events)
        /\ ret = Threw => NewEvents = <<>>
        /\ ret # Threw =>
              LET moved == call.movedTaskId # {}
                  first == moved /\ IndexesDiffer
                  second == moved /\ StatusesDiffer
              IN  /\ NewOfType("task_reordered") = (IF first THEN 1 ELSE 0)
                  /\ NewOfType("task_status_changed") = (IF second THEN 1 ELSE 0)
                  /\ Len(NewEvents) = (IF first THEN 1 ELSE 0) + (IF second THEN 1 ELSE 0)
                  /\ first =>
                        /\ NewEvents[1].type = "task_reordered"
                        /\ NewEvents[1].taskId \in call.movedTaskId
                        /\ NewEvents[1].payload =
                              [NoPayload EXCEPT !.fromIndex = call.fromIndex,
                                                !.toIndex = call.toIndex]
                  /\ second =>
                        /\ NewEvents[Len(NewEvents)].type = "task_status_changed"
                        /\ NewEvents[Len(NewEvents)].taskId \in call.movedTaskId
                        /\ NewEvents[Len(NewEvents)].payload =
                              [NoPayload EXCEPT
                                  !.from = {normalizeLegacyStatus(call.fromStatus)},
                                  !.to = {normalizeLegacyStatus(call.toStatus)}]

\* a move across columns recorded by two events
C28_Witness ==
    /\ call.op = "reorder"
    /\ ret # Threw
    /\ Len(NewEvents) = 2
    /\ NewEvents[1].type = "task_reordered"
    /\ NewEvents[2].type = "task_status_changed"

\* the browser's drag-end handler issues a reorder call; the board it shows
\* is the snapshot pre.tasks
DragIssued == trace' # trace /\ call'.op = "reorder" /\ call'.actor = {DemoUser}

DragConsistent ==
    LET snapshot == pre.tasks
        c == call'
        moved == The(c.movedTaskId)
        fromIndex == The(c.fromIndex)
        toIndex == The(c.toIndex)
    IN  /\ Len(c.columns) = 3
        /\ \A k \in 1..3 : c.columns[k].status = COLUMN_ORDER[k]
        /\ Listed(c.columns) = DOMAIN snapshot
        /\ \A id \in DOMAIN snapshot : Occurrences(c.columns, id) = 1
        /\ \E k \in 1..3 :
              /\ {c.columns[k].status} = c.toStatus
              /\ toIndex + 1 \in 1..Len(c.columns[k].orderedIds)
              /\ c.columns[k].orderedIds[toIndex + 1] = moved
        /\ c.fromStatus = {normalizeTaskStatus(snapshot[moved].status)}
        /\ statusToIds(snapshot, The(c.fromStatus))[fromIndex + 1] = moved

Loaded == Dispatched("rehydrate")

LoadedItem == LastDispatch.action.item

LoadResult == LastDispatch.action.loaded

\* some entry of the stored array cannot be normalized: it is no object, has
\* no string id or title, or no status the adapter knows and no legacy flag
BrokenEntry(raw) ==
    \/ raw.bad \cap {"object", "id", "title"} # {}
    \/ /\ "status" \in raw.bad \/ raw.task.status \notin {"backlog", "in_progress",
                                                           "done", "active"}
       /\ raw.done = "absent"

(***************************************************************************)
(* C25: loadState returns null when nothing is stored, when the stored     *)
(* value is not valid JSON, and when any stored task entry cannot be       *)
(* normalized (never a part of the task list); after saveState(state) on   *)
(* intact storage it returns a State equal to state.                       *)
(***************************************************************************)
C25_LoadReturnsSavedOrNull ==
    Loaded =>
        /\ LoadedItem = {} => LoadResult = {}
        /\ LoadedItem # {} =>
              LET item == The(LoadedItem)
              IN  /\ ~item.json => LoadResult = {}
                  /\ (\E i \in 1..Len(item.tasks) : BrokenEntry(item.tasks[i]))
                        => LoadResult = {}
                  /\ LoadResult # {} => Len(The(LoadResult).tasks) = Len(item.tasks)
        /\ LoadedItem = {stringify(LastDispatch.before)}
              => LoadResult = {LastDispatch.before} /\ todoState = LastDispatch.before
        /\ LoadResult # {} => todoState = The(LoadResult)
        /\ LoadResult = {} => todoState = LastDispatch.before

\* a board with a task added was saved and loaded again
C25_Witness ==
    /\ Loaded
    /\ Len(dispatched) = 2
    /\ dispatched[1].action.type = "add"
    /\ LoadedItem = {stringify(LastDispatch.before)}
    /\ LoadResult = {todoState}
    /\ Len(todoState.tasks) = Len(dispatched[1].before.tasks) + 1

\* the number of tasks with a title and a status, on either board
StoredAs(title, status) ==
    Cardinality({id \in DOMAIN tasks :
                    tasks[id].title = title /\ tasks[id].status = status})

LocalAs(title, status) ==
    Cardinality({i \in 1..Len(todoState.tasks) :
                    /\ todoState.tasks[i].title = title
                    /\ todoState.tasks[i].status = status})

SameCollection ==
    /\ Cardinality(DOMAIN tasks) = Len(todoState.tasks)
    /\ \A id \in DOMAIN tasks :
          StoredAs(tasks[id].title, tasks[id].status)
             = LocalAs(tasks[id].title, tasks[id].status)

(***************************************************************************)
(* C22: the reducer and the backend stay consistent: after every step of   *)
(* the same sequence of add/create (default status), setStatus,            *)
(* cycleStatus and remove both hold the same collection of tasks, with the *)
(* same titles and statuses: a blank title changes neither, a created task *)
(* has the trimmed title and status backlog in both.                       *)
(***************************************************************************)
C22_BoardsStayConsistent ==
    InStep =>
        /\ SameCollection
        /\ (call.op = "create" /\ Blank(call.title))
              => Unchanged /\ todoState = LastDispatch.before
        /\ (call.op = "create" /\ ~Blank(call.title))
              => /\ todoState.tasks[1].title = trim(call.title)
                 /\ todoState.tasks[1].status = "backlog"
                 /\ tasks[ret.id].title = trim(call.title)
                 /\ tasks[ret.id].status = "backlog"

====
